---- MODULE Spec2Model ----
(***************************************************************************)
(* Model of the open-stage dataflow engine (src/src/core/base.py and       *)
(* src/src/core/common.py): pipes, the barrier nodes Funnel and Joiner,    *)
(* and the fan-out nodes Switcher and Copy with the Printers below them.   *)
(*                                                                         *)
(* A DataFrame is a record [cols, rows]: cols is its set of column names,  *)
(* rows the sequence of its rows.  A row of an input table is the value of *)
(* its key column; a row of a join result records the key, the position of *)
(* the left row and the position of the right row (0 where pandas fills    *)
(* the side with NaN).  key_dtype is the dtype of the key column of a      *)
(* table fed to a Joiner: pd.merge raises on an int64 key against an       *)
(* object key.                                                             *)
(*                                                                         *)
(* Every action is one call made from outside the node (a bind, an attach, *)
(* a flow into the node, a direct pump) and runs the whole call chain of   *)
(* that call.  emit holds the envelopes the call handed to the node's      *)
(* output pipe, raised the exception the call ended with ("none" if none). *)
(***************************************************************************)
EXTENDS Integers, Sequences, FiniteSets, TLC

\* ------------------------------------------------------------------ bounds
\* longest table fed to a Funnel
FunnelRows == 1
\* most tables a Funnel is fed (its buffer is never cleared)
MaxRecv == 3
\* most input binds of a Funnel
MaxInputs == 2
\* longest table fed to a Joiner
JoinRows == 2
\* cap of the Joiner's received_inputs counter
MaxCount == 3
\* longest table fed to a Switcher
SwitchRows == 2
\* longest table fed to a Copy
CopyRows == 1

\* ------------------------------------------------------------- data model
KeyValues == {"k1", "k2"}

SeqsUpTo(S, n) == UNION {[1..k -> S] : k \in 0..n}

Min(a, b) == IF a <= b THEN a ELSE b

\* the column produced by Generator.pump
GenCols == {"number"}
\* a table with the join key, and one without it
KeyedCols == {"id", "v"}
UnkeyedCols == {"v"}

FunnelTables == [cols : {GenCols}, rows : SeqsUpTo(KeyValues, FunnelRows)]

JoinerTables ==
  [cols : {KeyedCols}, key_dtype : {"int64"}, rows : SeqsUpTo(KeyValues, JoinRows)]
    \cup [cols : {KeyedCols}, key_dtype : {"object"}, rows : {<<"k1">>, <<"k2">>}]
    \cup [cols : {UnkeyedCols}, key_dtype : {"none"}, rows : {<<>>, <<"k1">>}]

\* Pipe objects and their names; p4 is a second pipe object named like p1
Pipes == {"p1", "p2", "p3", "p4"}
PipeName(p) ==
  CASE p = "p1" -> "left"
    [] p = "p2" -> "right"
    [] p = "p3" -> "other"
    [] p = "p4" -> "left"
    [] p = "o1" -> "out1"
    [] p = "o2" -> "out2"
    [] p = "o3" -> "out1"
    [] p = "o4" -> "out4"

FunnelPipes == {"p1", "p2", "p4"}
JoinerPipes == {"p1", "p2", "p3"}
OutPipes == {"o1", "o2"}

\* the pipes below a Switcher or a Copy; o3 is a second pipe object named
\* like o1
DownPipes == {"o1", "o2", "o3", "o4"}
AllPipes == Pipes \cup DownPipes

Printers == {"printer1", "printer2", "printer3"}
Copies == {"copy1", "copy2"}

\* the three Generators of sample_1 and a CSVOrigin
Generators == {"gen1", "gen2", "gen3"}
CSVOrigins == {"csv1"}
Origins == Generators \cup CSVOrigins

\* values of the Switcher's field: "1" and "2" stand for strings or
\* integers, "NaN" for a null, "1.5" for a value of another type
SwitchValues == {"1", "2", "NaN"}
NullValue == "NaN"
FloatValue == "1.5"

\* a table with the default RangeIndex; index holds the row labels
Indexed(cols, rows) ==
  [cols |-> cols, rows |-> rows, index |-> [i \in 1..Len(rows) |-> i]]

SwitcherTables ==
  {Indexed(GenCols, r) : r \in SeqsUpTo(SwitchValues, SwitchRows)}
    \cup {Indexed(GenCols, r) : r \in {<<FloatValue>>, <<"1", FloatValue>>,
                                        <<NullValue, FloatValue>>}}
    \cup {Indexed(UnkeyedCols, <<"1">>)}

\* a DataPackage tagged with the name of another pipe
DataPackageMistagged(name, df) == [pipe_name |-> "other", df |-> df]

\* DataPackage(pipe_name, df)
DataPackage(name, df) == [pipe_name |-> name, df |-> df]

VARIABLES
  destination,              \* Pipe.destination, per input pipe: "none" or a node
  funnel_inputs,            \* Funnel.inputs: the keys of the dict
  funnel_outputs,           \* Funnel.outputs: pipes in insertion order
  dfs,                      \* Funnel.dfs
  funnel_received_inputs,   \* Funnel.received_inputs
  funnel_expected_inputs,   \* Funnel.expected_inputs
  combined_df,              \* Funnel.combined_df: <<>> while the attribute is unset
  round_start,              \* history: Len(dfs) when the last merge fired
  round_pipes,              \* history: pipes that delivered in the latest round
  late_bind,                \* history: an input was bound after a receive
  join_type,                \* Joiner.join_type: "unset" until the Joiner is constructed
  joiner_inputs,            \* Joiner.inputs: the keys of the dict
  joiner_outputs,           \* Joiner.outputs: pipes in insertion order
  received_dfs,             \* Joiner.received_dfs: pipe name -> DataFrame
  joiner_received_inputs,   \* Joiner.received_inputs
  joiner_rounds,            \* history: joins forwarded so far: 0, 1, or 2 for two or more
  last_flow,                \* history: what the last call, if a flow into the Joiner, carried
  switcher_mapping,         \* Switcher.mapping: <<>> until the Switcher is constructed
  fail_on_unmatch,          \* Switcher.fail_on_unmatch
  switcher_inputs,          \* Switcher.inputs: the keys of the dict
  switcher_outputs,         \* Switcher.outputs: the pipes, in the order of the dict
  switcher_received_df,     \* Switcher.received_df: <<>> while it is None
  dropped_unmatched,        \* history: row labels the last call logged as unmatched
  dropped_null,             \* history: row labels the last call logged as null
  copy_inputs,              \* Copy.inputs, per Copy: the keys of the dict
  copy_outputs,             \* Copy.outputs, per Copy: the pipes, in the order of the dict
  copy_received_df,         \* Copy.received_df, per Copy: <<>> while it is None
  copy_attached,            \* history, per Copy: the pipes attached, in the order of their first attach
  printer_inputs,           \* Printer.inputs, per Printer: the keys of the dict
  heap,                     \* history: content of the DataFrame objects of the last flow
  trace,                    \* history: the calls of the last call chain, in order
  last_call,                \* history: the call made from outside
  origin_outputs,           \* Origin.outputs, per origin: the pipes, in the order of the dict
  stack,                    \* the calls of a running pump that are still to be made, next first
  emit,                     \* envelopes handed to the output pipe by the last call
  raised                    \* exception the last call ended with

funnelVars ==
  <<funnel_inputs, funnel_outputs, dfs, funnel_received_inputs,
    funnel_expected_inputs, combined_df, round_start, round_pipes, late_bind>>

joinerVars ==
  <<join_type, joiner_inputs, joiner_outputs, received_dfs,
    joiner_received_inputs, joiner_rounds, last_flow>>

switcherVars ==
  <<switcher_mapping, fail_on_unmatch, switcher_inputs, switcher_outputs,
    switcher_received_df, dropped_unmatched, dropped_null>>

copyVars == <<copy_inputs, copy_outputs, copy_received_df, copy_attached, heap>>

downVars == <<printer_inputs, trace, last_call>>

fanOutVars == <<switcherVars, copyVars, downVars>>

originVars == <<origin_outputs, stack>>

\* last_flow after a call that is no flow into the Joiner
NoFlow == [pipe_name |-> "none", keyed |-> FALSE, key_dtype |-> "none"]

vars ==
  <<destination, funnelVars, joinerVars, fanOutVars, originVars, emit, raised>>

\* an empty dict
EmptyDict == [n \in {} |-> <<>>]

\* last_call before any call
NoCall == [op |-> "none", pipe |-> "none", df |-> <<>>]

Init ==
  /\ destination = [p \in AllPipes |-> "none"]
  /\ funnel_inputs = {}
  /\ funnel_outputs = <<>>
  /\ dfs = <<>>
  /\ funnel_received_inputs = 0
  /\ funnel_expected_inputs = 0
  /\ combined_df = <<>>
  /\ round_start = 0
  /\ round_pipes = {}
  /\ late_bind = FALSE
  /\ join_type = "unset"
  /\ joiner_inputs = {}
  /\ joiner_outputs = <<>>
  /\ received_dfs = EmptyDict
  /\ joiner_received_inputs = 0
  /\ joiner_rounds = 0
  /\ last_flow = NoFlow
  /\ switcher_mapping = <<>>
  /\ fail_on_unmatch = FALSE
  /\ switcher_inputs = {}
  /\ switcher_outputs = <<>>
  /\ switcher_received_df = <<>>
  /\ dropped_unmatched = {}
  /\ dropped_null = {}
  /\ copy_inputs = [c \in Copies |-> {}]
  /\ copy_outputs = [c \in Copies |-> <<>>]
  /\ copy_received_df = [c \in Copies |-> <<>>]
  /\ copy_attached = [c \in Copies |-> <<>>]
  /\ printer_inputs = [pr \in Printers |-> {}]
  /\ heap = EmptyDict
  /\ trace = <<>>
  /\ last_call = NoCall
  /\ origin_outputs = [g \in Origins |-> <<>>]
  /\ stack = <<>>
  /\ emit = <<>>
  /\ raised = "none"

\* ------------------------------------------------------------------ Funnel
RECURSIVE ConcatRows(_)
\* pd.concat(dfs, ignore_index=True): the rows of the tables, in list order
ConcatRows(tables) ==
  IF tables = <<>> THEN <<>>
  ELSE tables[1].rows \o ConcatRows(Tail(tables))

ConcatCols(tables) == UNION {tables[i].cols : i \in 1..Len(tables)}

\* a concatenation that puts the tables in the reverse of the list order
PdConcatReversed(tables) ==
  [cols |-> ConcatCols(tables),
   rows |-> ConcatRows([i \in 1..Len(tables) |-> tables[Len(tables) + 1 - i]])]

PdConcat(tables) == [cols |-> ConcatCols(tables), rows |-> ConcatRows(tables)]

\* a barrier that opens on every receive
FunnelReadyAlways(received, expected) == received >= 1

\* Funnel.sink line 74: merge only when every expected input has been counted
FunnelReady(received, expected) == received = expected

\* Funnel.pump: forward combined_df on the sole output pipe, if both exist
FunnelPumpEmit(combined, outputs) ==
  IF combined # <<>> /\ Len(outputs) > 0
  THEN <<DataPackage(PipeName(outputs[1]), combined[1])>>
  ELSE <<>>

\* a merge_and_pump that always takes its 'no DataFrames to merge' branch
FunnelMergedNothing(buffer, combined) == combined

\* Funnel.merge_and_pump: the value combined_df has after it, given dfs
FunnelMerged(buffer, combined) ==
  IF Len(buffer) > 0 THEN <<PdConcat(buffer)>> ELSE combined

\* Funnel.merge_and_pump: what it forwards
FunnelMergeEmit(buffer, combined, outputs) ==
  IF Len(buffer) > 0
  THEN FunnelPumpEmit(FunnelMerged(buffer, combined), outputs)
  ELSE <<>>

\* Pipe.set_destination(funnel) -> Funnel.add_input_pipe
FunnelBind(p) ==
  /\ destination' = [destination EXCEPT ![p] = "funnel"]
  /\ funnel_inputs' = funnel_inputs \cup {PipeName(p)}
  /\ funnel_expected_inputs' = funnel_expected_inputs + 1
  /\ late_bind' = (late_bind \/ Len(dfs) > 0)
  /\ emit' = <<>>
  /\ raised' = "none"
  /\ UNCHANGED <<funnel_outputs, dfs, funnel_received_inputs, combined_df,
                 round_start, round_pipes, joinerVars, fanOutVars, originVars>>

\* Pipe.set_destination(funnel), at most MaxInputs times
FunnelSetDestination(p) ==
  /\ funnel_expected_inputs < MaxInputs
  /\ FunnelBind(p)

\* Funnel.add_output_pipe
FunnelAddOutputPipe(o) ==
  /\ IF Len(funnel_outputs) = 0
     THEN /\ funnel_outputs' = <<o>>
          /\ raised' = "none"
     ELSE /\ funnel_outputs' = funnel_outputs
          /\ raised' = "ValueError: can only have 1 output"
  /\ emit' = <<>>
  /\ UNCHANGED <<destination, funnel_inputs, dfs, funnel_received_inputs,
                 funnel_expected_inputs, combined_df, round_start, round_pipes,
                 late_bind, joinerVars, fanOutVars, originVars>>

\* Pipe.flow(df) on a pipe bound to the funnel -> Funnel.sink
\* (-> Funnel.merge_and_pump -> Funnel.pump when the count is reached)
FunnelFlow(p, df) ==
  /\ destination[p] = "funnel"
  /\ Len(dfs) < MaxRecv
  /\ dfs' = Append(dfs, df)
  /\ funnel_received_inputs' = funnel_received_inputs + 1
  /\ IF FunnelReady(funnel_received_inputs + 1, funnel_expected_inputs)
     THEN /\ combined_df' = FunnelMerged(Append(dfs, df), combined_df)
          /\ emit' = FunnelMergeEmit(Append(dfs, df), combined_df, funnel_outputs)
          /\ round_start' = Len(dfs) + 1
     ELSE /\ combined_df' = combined_df
          /\ emit' = <<>>
          /\ round_start' = round_start
  /\ round_pipes' = IF Len(dfs) = round_start THEN {p} ELSE round_pipes \cup {p}
  /\ raised' = "none"
  /\ UNCHANGED <<destination, funnel_inputs, funnel_outputs,
                 funnel_expected_inputs, late_bind, joinerVars, fanOutVars, originVars>>

\* Funnel.pump called directly
FunnelPump ==
  /\ emit' = FunnelPumpEmit(combined_df, funnel_outputs)
  /\ raised' = "none"
  /\ UNCHANGED <<destination, funnelVars, joinerVars, fanOutVars, originVars>>

NextFunnel ==
  \/ \E p \in FunnelPipes : FunnelSetDestination(p)
  \/ \E o \in OutPipes : FunnelAddOutputPipe(o)
  \/ \E p \in FunnelPipes, df \in FunnelTables : FunnelFlow(p, df)
  \/ FunnelPump

SpecFunnel == Init /\ [][NextFunnel]_vars

\* ------------------------------------------------------------------ Joiner
\* Joiner.__init__: left, right and key as the samples configure them
LeftPipeName == "left"
RightPipeName == "right"
JoinKey == "id"
JoinerExpectedInputs == 2
ValidJoinTypes == {"left", "right", "inner"}
JoinTypeArgs == ValidJoinTypes \cup {"outer"}

\* the positions of the rows of a table whose key is k, in table order
MatchIdx(k, rows) ==
  SelectSeq([j \in 1..Len(rows) |-> j], LAMBDA j : rows[j] = k)

\* the result rows pandas builds for row i of the driving table: one per
\* matching row of the other table, or one NaN-filled row if it is kept unmatched
RowsFor(i, driving, other, keepUnmatched, drivingIsLeft) ==
  LET m == MatchIdx(driving[i], other)
      row(a, b) == IF drivingIsLeft
                   THEN [key |-> driving[i], l |-> a, r |-> b]
                   ELSE [key |-> driving[i], l |-> b, r |-> a]
  IN  IF m = <<>>
      THEN IF keepUnmatched THEN <<row(i, 0)>> ELSE <<>>
      ELSE [n \in 1..Len(m) |-> row(i, m[n])]

RECURSIVE MergeFrom(_, _, _, _, _)
MergeFrom(i, driving, other, keepUnmatched, drivingIsLeft) ==
  IF i > Len(driving) THEN <<>>
  ELSE RowsFor(i, driving, other, keepUnmatched, drivingIsLeft)
         \o MergeFrom(i + 1, driving, other, keepUnmatched, drivingIsLeft)

\* a merge that pairs every row of the driving table with at most one row
RowsForFirstMatch(i, driving, other, keepUnmatched, drivingIsLeft) ==
  LET m == MatchIdx(driving[i], other)
      row(a, b) == IF drivingIsLeft
                   THEN [key |-> driving[i], l |-> a, r |-> b]
                   ELSE [key |-> driving[i], l |-> b, r |-> a]
  IN  IF m = <<>>
      THEN IF keepUnmatched THEN <<row(i, 0)>> ELSE <<>>
      ELSE <<row(i, m[1])>>

RECURSIVE MergeFirstMatch(_, _, _, _, _)
MergeFirstMatch(i, driving, other, keepUnmatched, drivingIsLeft) ==
  IF i > Len(driving) THEN <<>>
  ELSE RowsForFirstMatch(i, driving, other, keepUnmatched, drivingIsLeft)
         \o MergeFirstMatch(i + 1, driving, other, keepUnmatched, drivingIsLeft)

PdMergeFirstMatch(left, right, how) ==
  [cols |-> left.cols \cup right.cols,
   key_dtype |-> left.key_dtype,
   rows |-> CASE how = "inner" -> MergeFirstMatch(1, left.rows, right.rows, FALSE, TRUE)
              [] how = "left" -> MergeFirstMatch(1, left.rows, right.rows, TRUE, TRUE)
              [] how = "right" -> MergeFirstMatch(1, right.rows, left.rows, TRUE, FALSE)]

\* a left join that drops the left rows without a match
PdMergeLeftDropsUnmatched(left, right, how) ==
  [cols |-> left.cols \cup right.cols,
   key_dtype |-> left.key_dtype,
   rows |-> CASE how = "inner" -> MergeFrom(1, left.rows, right.rows, FALSE, TRUE)
              [] how = "left" -> MergeFrom(1, left.rows, right.rows, FALSE, TRUE)
              [] how = "right" -> MergeFrom(1, right.rows, left.rows, TRUE, FALSE)]

\* pd.merge(left_df, right_df, on=key, how=join_type)
PdMerge(left, right, how) ==
  [cols |-> left.cols \cup right.cols,
   key_dtype |-> left.key_dtype,
   rows |-> CASE how = "inner" -> MergeFrom(1, left.rows, right.rows, FALSE, TRUE)
              [] how = "left" -> MergeFrom(1, left.rows, right.rows, TRUE, TRUE)
              [] how = "right" -> MergeFrom(1, right.rows, left.rows, TRUE, FALSE)]

\* Joiner.pump lines 722-729, 743: pd.merge raises on keys of different dtype
PdMergeRaises(left, right) == left.key_dtype # right.key_dtype

\* Joiner.sink line 679: the pipe is one of the two configured pipes
JoinerPipeExpected(name) == name \in {LeftPipeName, RightPipeName}

\* a sink that does not check the key column
JoinerKeyUnchecked(df) == TRUE

\* Joiner.sink line 683: the key column is in the DataFrame
JoinerKeyPresent(df) == JoinKey \in df.cols

\* Joiner.sink line 687: received_dfs[pipe_name] = df
JoinerStored(dict, name, df) ==
  [n \in DOMAIN dict \cup {name} |-> IF n = name THEN df ELSE dict[n]]

\* Joiner.sink line 694
JoinerReady(received) == received = JoinerExpectedInputs

\* a pump that returns early whatever it holds
JoinerPumpNeverRuns(dict, outputs) == FALSE

\* Joiner.pump lines 698-704: the two early returns are not taken
JoinerPumpRuns(dict, outputs) ==
  Cardinality(DOMAIN dict) = 2 /\ Len(outputs) > 0

\* Joiner.pump lines 707-711
JoinerPumpRaises(dict) ==
  IF LeftPipeName \notin DOMAIN dict
  THEN "ValueError: left DataFrame not received"
  ELSE IF RightPipeName \notin DOMAIN dict
  THEN "ValueError: right DataFrame not received"
  ELSE "none"

\* Joiner.pump lines 713-741: the join and the forward of its result
JoinerPumpEmit(dict, outputs, how) ==
  <<DataPackage(PipeName(outputs[1]),
                PdMerge(dict[LeftPipeName], dict[RightPipeName], how))>>

\* a pump that keeps the DataFrames it joined
JoinerNotCleared(dict) == dict

\* Joiner.pump lines 747-749
JoinerCleared(dict) == EmptyDict

\* Joiner.pump on the dict as it stands when pump is called
JoinerPumpBody(dict, received) ==
  IF ~JoinerPumpRuns(dict, joiner_outputs)
  THEN /\ received_dfs' = dict
       /\ joiner_received_inputs' = received
       /\ emit' = <<>>
       /\ raised' = "none"
       /\ joiner_rounds' = joiner_rounds
  ELSE IF JoinerPumpRaises(dict) # "none"
  THEN /\ received_dfs' = dict
       /\ joiner_received_inputs' = received
       /\ emit' = <<>>
       /\ raised' = JoinerPumpRaises(dict)
       /\ joiner_rounds' = joiner_rounds
  ELSE IF PdMergeRaises(dict[LeftPipeName], dict[RightPipeName])
  THEN \* the except clause prints the error; the cleanup after it still runs
       /\ emit' = <<>>
       /\ received_dfs' = JoinerCleared(dict)
       /\ joiner_received_inputs' = 0
       /\ raised' = "none"
       /\ joiner_rounds' = joiner_rounds
  ELSE /\ emit' = JoinerPumpEmit(dict, joiner_outputs, join_type)
       /\ received_dfs' = JoinerCleared(dict)
       /\ joiner_received_inputs' = 0
       /\ raised' = "none"
       /\ joiner_rounds' = IF joiner_rounds < 2
                           THEN joiner_rounds + 1 ELSE joiner_rounds

\* Joiner(name, left, right, key, join_type)
JoinerConstruct(how) ==
  /\ join_type = "unset"
  /\ IF how \in ValidJoinTypes
     THEN /\ join_type' = how
          /\ raised' = "none"
     ELSE /\ join_type' = join_type
          /\ raised' = "ValueError: join_type not supported"
  /\ emit' = <<>>
  /\ last_flow' = NoFlow
  /\ UNCHANGED <<destination, funnelVars, fanOutVars, originVars, joiner_inputs, joiner_outputs,
                 received_dfs, joiner_received_inputs, joiner_rounds>>

\* Pipe.set_destination(joiner) -> Joiner.add_input_pipe
JoinerSetDestination(p) ==
  /\ join_type # "unset"
  /\ destination' = [destination EXCEPT ![p] = "joiner"]
  /\ IF Cardinality(joiner_inputs) < 2
     THEN /\ joiner_inputs' = joiner_inputs \cup {PipeName(p)}
          /\ raised' = "none"
     ELSE /\ joiner_inputs' = joiner_inputs
          /\ raised' = "ValueError: can only have 2 inputs"
  /\ emit' = <<>>
  /\ last_flow' = NoFlow
  /\ UNCHANGED <<funnelVars, fanOutVars, originVars, join_type, joiner_outputs, received_dfs,
                 joiner_received_inputs, joiner_rounds>>

\* Joiner.add_output_pipe
JoinerAddOutputPipe(o) ==
  /\ join_type # "unset"
  /\ IF Len(joiner_outputs) = 0
     THEN /\ joiner_outputs' = <<o>>
          /\ raised' = "none"
     ELSE /\ joiner_outputs' = joiner_outputs
          /\ raised' = "ValueError: can only have 1 output"
  /\ emit' = <<>>
  /\ last_flow' = NoFlow
  /\ UNCHANGED <<destination, funnelVars, fanOutVars, originVars, join_type, joiner_inputs,
                 received_dfs, joiner_received_inputs, joiner_rounds>>

\* Pipe.flow(df) on a pipe bound to the joiner -> Joiner.sink
\* (-> Joiner.pump when two DataFrames have been counted)
JoinerFlow(p, df) ==
  /\ destination[p] = "joiner"
  /\ joiner_received_inputs < MaxCount
  /\ last_flow' = [pipe_name |-> PipeName(p),
                   keyed |-> JoinKey \in df.cols,
                   key_dtype |-> df.key_dtype]
  /\ IF ~JoinerPipeExpected(PipeName(p))
     THEN /\ raised' = "ValueError: unexpected pipe"
          /\ emit' = <<>>
          /\ UNCHANGED <<received_dfs, joiner_received_inputs, joiner_rounds>>
     ELSE IF ~JoinerKeyPresent(df)
     THEN /\ raised' = "ValueError: key field not found"
          /\ emit' = <<>>
          /\ UNCHANGED <<received_dfs, joiner_received_inputs, joiner_rounds>>
     ELSE IF JoinerReady(joiner_received_inputs + 1)
     THEN JoinerPumpBody(JoinerStored(received_dfs, PipeName(p), df),
                         joiner_received_inputs + 1)
     ELSE /\ received_dfs' = JoinerStored(received_dfs, PipeName(p), df)
          /\ joiner_received_inputs' = joiner_received_inputs + 1
          /\ emit' = <<>>
          /\ raised' = "none"
          /\ joiner_rounds' = joiner_rounds
  /\ UNCHANGED <<destination, funnelVars, fanOutVars, originVars, join_type, joiner_inputs,
                 joiner_outputs>>

\* Joiner.pump called directly
JoinerPump ==
  /\ join_type # "unset"
  /\ JoinerPumpBody(received_dfs, joiner_received_inputs)
  /\ last_flow' = NoFlow
  /\ UNCHANGED <<destination, funnelVars, fanOutVars, originVars, join_type, joiner_inputs,
                 joiner_outputs>>

NextJoiner ==
  \/ \E how \in JoinTypeArgs : JoinerConstruct(how)
  \/ \E p \in JoinerPipes : JoinerSetDestination(p)
  \/ \E o \in OutPipes : JoinerAddOutputPipe(o)
  \/ \E p \in JoinerPipes, df \in JoinerTables : JoinerFlow(p, df)
  \/ JoinerPump

SpecJoiner == Init /\ [][NextJoiner]_vars

\* ----------------------------------------------- pipes below a fan-out node
\* self.destination.sink on a pipe whose destination is None
AttributeError == "AttributeError: 'NoneType' object has no attribute 'sink'"

\* one call of the chain: a Pipe.flow, the sink it makes, or the flow's return
Ev(kind, o, pkg) ==
  [ev |-> kind, pipe |-> o, node |-> destination[o], pkg |-> pkg]

\* the result of a part of a call chain: its calls, the exception it ended
\* with, and received_df of every Copy after it
Ran(calls, exc, rdf) == [trace |-> calls, raised |-> exc, rdf |-> rdf]

\* dict[pipe.get_name()] = pipe on a dict kept as the sequence of its values:
\* a name already in the dict keeps its place and gets the new pipe
DictSet(pipes, o) ==
  IF \E i \in 1..Len(pipes) : PipeName(pipes[i]) = PipeName(o)
  THEN [i \in 1..Len(pipes) |->
          IF PipeName(pipes[i]) = PipeName(o) THEN o ELSE pipes[i]]
  ELSE Append(pipes, o)

\* name in dict
HasName(pipes, name) == \E i \in 1..Len(pipes) : PipeName(pipes[i]) = name

\* dict[name]
PipeNamed(pipes, name) ==
  pipes[CHOOSE i \in 1..Len(pipes) : PipeName(pipes[i]) = name]

CopyNo(c) == IF c = "copy1" THEN 1 ELSE 2

\* a copy that is the very object it was made from
DfCopyAlias(df, c, k) == df

\* df.copy() in Copy.pump of Copy c for its k-th output: a new object (buf)
\* with the content of df
DfCopy(df, c, k) == [df EXCEPT !.buf = @ \o <<CopyNo(c), k>>]

\* a DataFrame object handed to a Copy: buf names the object, a copy made
\* of it is another object
CopyTables ==
  {[cols |-> GenCols, rows |-> r, buf |-> <<>>] : r \in SeqsUpTo(KeyValues, CopyRows)}

RECURSIVE PipeFlowRun(_, _, _)

RECURSIVE FanOutLevelOrder(_, _, _, _)
\* a loop that starts the flow of the next output before the consumer of
\* the current one has received
FanOutLevelOrder(c, k, df, rdf) ==
  IF k > Len(copy_outputs[c]) THEN Ran(<<>>, "none", rdf)
  ELSE LET r == PipeFlowRun(copy_outputs[c][k], DfCopy(df, c, k), rdf)
       IN  IF r.raised # "none" THEN r
           ELSE LET rest == FanOutLevelOrder(c, k + 1, df, r.rdf)
                IN  Ran(IF rest.trace = <<>> THEN r.trace
                        ELSE <<Head(r.trace), Head(rest.trace)>>
                               \o Tail(r.trace) \o Tail(rest.trace),
                        rest.raised, rest.rdf)

RECURSIVE FanOutRun(_, _, _, _)
\* Copy.pump lines 314-317: the for loop over the outputs, from the k-th on
FanOutRun(c, k, df, rdf) ==
  IF k > Len(copy_outputs[c]) THEN Ran(<<>>, "none", rdf)
  ELSE LET r == PipeFlowRun(copy_outputs[c][k], DfCopy(df, c, k), rdf)
       IN  IF r.raised # "none" THEN r
           ELSE LET rest == FanOutRun(c, k + 1, df, r.rdf)
                IN  Ran(r.trace \o rest.trace, rest.raised, rest.rdf)

\* Copy.pump of Copy c when received_df of the Copies is rdf
CopyPumpRun(c, rdf) ==
  IF rdf[c] = <<>> \/ Len(copy_outputs[c]) = 0
  THEN Ran(<<>>, "none", rdf)
  ELSE LET r == FanOutRun(c, 1, rdf[c][1], rdf)
       IN  IF r.raised = "none"
           THEN Ran(r.trace, "none", [r.rdf EXCEPT ![c] = <<>>])
           ELSE r

\* Pipe.flow(df) on pipe o, and the sink of its destination
PipeFlowRun(o, df, rdf) ==
  LET pkg == DataPackage(PipeName(o), df)
  IN  IF destination[o] = "none"
      THEN Ran(<<Ev("flow", o, pkg)>>, AttributeError, rdf)
      ELSE IF destination[o] \in Printers
      THEN Ran(<<Ev("flow", o, pkg), Ev("sink", o, pkg), Ev("return", o, pkg)>>,
               "none", rdf)
      ELSE LET c == destination[o]
               r == CopyPumpRun(c, [rdf EXCEPT ![c] = <<df>>])
           IN  Ran(<<Ev("flow", o, pkg), Ev("sink", o, pkg)>> \o r.trace
                     \o (IF r.raised = "none"
                         THEN <<Ev("return", o, pkg)>> ELSE <<>>),
                   r.raised, r.rdf)

\* the call made from outside
Call(op, p, df) == [op |-> op, pipe |-> p, df |-> df]

\* a Printer that registers every pipe bound to it
PrinterAcceptsEveryPipe(o, pr) ==
  /\ destination' = [destination EXCEPT ![o] = pr]
  /\ printer_inputs' = [printer_inputs EXCEPT ![pr] = @ \cup {PipeName(o)}]
  /\ raised' = "none"
  /\ emit' = <<>>
  /\ trace' = <<>>
  /\ last_call' = Call("bind", o, <<>>)
  /\ UNCHANGED <<originVars, funnelVars, joinerVars, switcherVars, copyVars>>

\* Pipe.set_destination(printer) -> Printer.add_input_pipe
PrinterSetDestination(o, pr) ==
  /\ destination' = [destination EXCEPT ![o] = pr]
  /\ IF printer_inputs[pr] = {}
     THEN /\ printer_inputs' = [printer_inputs EXCEPT ![pr] = {PipeName(o)}]
          /\ raised' = "none"
     ELSE /\ printer_inputs' = printer_inputs
          /\ raised' = "ValueError: can only have 1 input"
  /\ emit' = <<>>
  /\ trace' = <<>>
  /\ last_call' = Call("bind", o, <<>>)
  /\ UNCHANGED <<originVars, funnelVars, joinerVars, switcherVars, copyVars>>

\* ---------------------------------------------------------------- Switcher
\* Switcher(name, field, mapping, fail_on_unmatch): the field of sample_1
SwitcherField == "number"

\* the mapping of sample_1
SampleMapping == "1" :> "out1" @@ "2" :> "out2"

\* the mappings a Switcher is constructed with
MappingArgs ==
  {SampleMapping,
   ("1" :> "out1"),
   (FloatValue :> "out1")}

\* isinstance(x, (str, int))
IsStrOrInt(v) == v \notin {NullValue, FloatValue}

\* pd.notna(x)
NotNa(v) == v # NullValue

RECURSIVE UniqueSeq(_)
\* Series.unique(): the values in the order of their first occurrence
UniqueSeq(values) ==
  IF values = <<>> THEN <<>>
  ELSE <<Head(values)>>
         \o UniqueSeq(SelectSeq(Tail(values), LAMBDA v : v # Head(values)))

\* the non-null values with their repetitions
UniqueValuesKeepRepeats(df) == SelectSeq(df.rows, NotNa)

\* the distinct non-null values, the one that occurs first coming last
UniqueValuesReversed(df) ==
  LET u == UniqueSeq(SelectSeq(df.rows, NotNa))
  IN  [i \in 1..Len(u) |-> u[Len(u) + 1 - i]]

\* Switcher.pump line 161: df[field].dropna().unique()
UniqueValues(df) == UniqueSeq(SelectSeq(df.rows, NotNa))

\* a filter that keeps only the first row whose field is v
FilteredDfFirstRow(df, v) ==
  LET keep == SelectSeq([i \in 1..Len(df.rows) |-> i], LAMBDA i : df.rows[i] = v)
  IN  [cols |-> df.cols,
       rows |-> [n \in 1..Min(1, Len(keep)) |-> df.rows[keep[n]]],
       index |-> [n \in 1..Min(1, Len(keep)) |-> df.index[keep[n]]]]

\* Switcher.pump lines 166 and 191: the rows whose field is v, with their labels
FilteredDf(df, v) ==
  LET keep == SelectSeq([i \in 1..Len(df.rows) |-> i], LAMBDA i : df.rows[i] = v)
  IN  [cols |-> df.cols,
       rows |-> [n \in 1..Len(keep) |-> df.rows[keep[n]]],
       index |-> [n \in 1..Len(keep) |-> df.index[keep[n]]]]

\* the labels of the rows of a table
Labels(df) == {df.index[n] : n \in 1..Len(df.index)}

\* a sink that validates nothing
SwitcherValidationSkipped(df) == "none"

\* Switcher.sink lines 135-143: the exception the validation ends with
SwitcherValidation(df) ==
  IF SwitcherField \notin df.cols
  THEN "ValueError: field not found"
  ELSE IF \E i \in 1..Len(df.rows) : ~IsStrOrInt(df.rows[i]) /\ NotNa(df.rows[i])
  THEN "ValueError: non-string/non-integer values"
  ELSE "none"

\* Switcher.pump lines 168-171: the value is mapped and its pipe is attached
SwitcherRoutes(v) ==
  /\ v \in DOMAIN switcher_mapping[1]
  /\ HasName(switcher_outputs, switcher_mapping[1][v])

\* a Switcher that raises on a value it does not route whatever its mode
SwitcherRaisesAlways(strict) == TRUE

\* Switcher.pump lines 178 and 185: if self.fail_on_unmatch
SwitcherRaises(strict) == strict

\* an unrouted value reported as a null row
SwitcherUnmatchAsNull(v) == "ValueError: rows with NaN values"

\* Switcher.pump lines 177 and 184: the error of a value that is not routed
SwitcherUnmatchError(v) ==
  IF v \in DOMAIN switcher_mapping[1]
  THEN "ValueError: target pipe not found in outputs"
  ELSE "ValueError: no mapping found for value"

\* what the loop of Switcher.pump has done so far
Looped(calls, exc, rdf, sent, unmatched) ==
  [trace |-> calls, raised |-> exc, rdf |-> rdf, emit |-> sent,
   unmatched |-> unmatched]

RECURSIVE SwitcherLoop(_, _, _)
\* Switcher.pump lines 164-188: the for loop over the values still to do
SwitcherLoop(values, df, acc) ==
  IF values = <<>> THEN acc
  ELSE LET value == Head(values)
           filtered_df == FilteredDf(df, value)
       IN  IF SwitcherRoutes(value)
           THEN LET target_pipe == PipeNamed(switcher_outputs, switcher_mapping[1][value])
                    r == PipeFlowRun(target_pipe, filtered_df, acc.rdf)
                    done == Looped(acc.trace \o r.trace, r.raised, r.rdf,
                                   Append(acc.emit,
                                          DataPackage(PipeName(target_pipe), filtered_df)),
                                   acc.unmatched)
                IN  IF r.raised # "none" THEN done
                    ELSE SwitcherLoop(Tail(values), df, done)
           ELSE IF SwitcherRaises(fail_on_unmatch)
           THEN [acc EXCEPT !.raised = SwitcherUnmatchError(value)]
           ELSE SwitcherLoop(Tail(values), df,
                             [acc EXCEPT !.unmatched = @ \cup Labels(filtered_df)])

\* a null handling that never raises
SwitcherNullLenient(nan_df) == "none"

\* Switcher.pump lines 191-197: the exception the null rows end with
SwitcherNullError(nan_df) ==
  IF nan_df.rows # <<>> /\ fail_on_unmatch
  THEN "ValueError: rows with NaN values"
  ELSE "none"

\* Switcher.pump when received_df is received
SwitcherPumpBody(received) ==
  IF received = <<>>
  THEN /\ emit' = <<>>
       /\ trace' = <<>>
       /\ raised' = "none"
       /\ switcher_received_df' = received
       /\ dropped_unmatched' = {}
       /\ dropped_null' = {}
       /\ copy_received_df' = copy_received_df
  ELSE LET df == received[1]
           r == SwitcherLoop(UniqueValues(df), df,
                             Looped(<<>>, "none", copy_received_df, <<>>, {}))
           nan_df == FilteredDf(df, NullValue)
       IN  /\ emit' = r.emit
           /\ trace' = r.trace
           /\ copy_received_df' = r.rdf
           /\ dropped_unmatched' = r.unmatched
           /\ IF r.raised # "none"
              THEN /\ raised' = r.raised
                   /\ dropped_null' = {}
                   /\ switcher_received_df' = received
              ELSE IF SwitcherNullError(nan_df) # "none"
              THEN /\ raised' = SwitcherNullError(nan_df)
                   /\ dropped_null' = {}
                   /\ switcher_received_df' = received
              ELSE /\ raised' = "none"
                   /\ dropped_null' = Labels(nan_df)
                   /\ switcher_received_df' = <<>>

\* Switcher(name, field, mapping, fail_on_unmatch)
SwitcherConstruct(mapping, strict) ==
  /\ switcher_mapping = <<>>
  /\ IF \A key \in DOMAIN mapping : IsStrOrInt(key)
     THEN /\ switcher_mapping' = <<mapping>>
          /\ fail_on_unmatch' = strict
          /\ raised' = "none"
     ELSE /\ UNCHANGED <<switcher_mapping, fail_on_unmatch>>
          /\ raised' = "ValueError: mapping key must be string or integer"
  /\ emit' = <<>>
  /\ trace' = <<>>
  /\ last_call' = Call("construct", "none", <<>>)
  /\ UNCHANGED <<destination, originVars, funnelVars, joinerVars, switcher_inputs,
                 switcher_outputs, switcher_received_df, dropped_unmatched,
                 dropped_null, copyVars, printer_inputs>>

\* Pipe.set_destination(switcher) -> Switcher.add_input_pipe
SwitcherSetDestination(p) ==
  /\ switcher_mapping # <<>>
  /\ destination' = [destination EXCEPT ![p] = "switcher"]
  /\ IF switcher_inputs = {}
     THEN /\ switcher_inputs' = {PipeName(p)}
          /\ raised' = "none"
     ELSE /\ switcher_inputs' = switcher_inputs
          /\ raised' = "ValueError: can only have 1 input"
  /\ emit' = <<>>
  /\ trace' = <<>>
  /\ last_call' = Call("bind", p, <<>>)
  /\ UNCHANGED <<originVars, funnelVars, joinerVars, switcher_mapping, fail_on_unmatch,
                 switcher_outputs, switcher_received_df, dropped_unmatched,
                 dropped_null, copyVars, printer_inputs>>

\* Switcher.add_output_pipe
SwitcherAddOutputPipe(o) ==
  /\ switcher_mapping # <<>>
  /\ switcher_outputs' = DictSet(switcher_outputs, o)
  /\ raised' = "none"
  /\ emit' = <<>>
  /\ trace' = <<>>
  /\ last_call' = Call("attach", o, <<>>)
  /\ UNCHANGED <<destination, originVars, funnelVars, joinerVars, switcher_mapping,
                 fail_on_unmatch, switcher_inputs, switcher_received_df,
                 dropped_unmatched, dropped_null, copyVars, printer_inputs>>

\* Pipe.flow(df) on a pipe bound to the switcher -> Switcher.sink -> Switcher.pump
SwitcherFlow(p, df) ==
  /\ destination[p] = "switcher"
  /\ last_call' = Call("flow", p, <<df>>)
  /\ IF SwitcherValidation(df) # "none"
     THEN /\ raised' = SwitcherValidation(df)
          /\ emit' = <<>>
          /\ trace' = <<>>
          /\ dropped_unmatched' = {}
          /\ dropped_null' = {}
          /\ UNCHANGED <<switcher_received_df, copy_received_df>>
     ELSE SwitcherPumpBody(<<df>>)
  /\ UNCHANGED <<destination, originVars, funnelVars, joinerVars, switcher_mapping,
                 fail_on_unmatch, switcher_inputs, switcher_outputs,
                 copy_inputs, copy_outputs, copy_attached, heap, printer_inputs>>

\* Switcher.pump called directly
SwitcherPump ==
  /\ switcher_mapping # <<>>
  /\ SwitcherPumpBody(switcher_received_df)
  /\ last_call' = Call("pump", "none", <<>>)
  /\ UNCHANGED <<destination, originVars, funnelVars, joinerVars, switcher_mapping,
                 fail_on_unmatch, switcher_inputs, switcher_outputs,
                 copy_inputs, copy_outputs, copy_attached, heap, printer_inputs>>

\* the pipes bound and attached around the Switcher
SwitcherInPipes == {"p1"}
SwitcherOutPipes == {"o1", "o2"}
SwitcherBinds == {<<"o1", "printer1">>, <<"o2", "printer2">>}

NextSwitcher ==
  \/ \E mapping \in MappingArgs, strict \in BOOLEAN : SwitcherConstruct(mapping, strict)
  \/ \E p \in SwitcherInPipes : SwitcherSetDestination(p)
  \/ \E o \in SwitcherOutPipes : SwitcherAddOutputPipe(o)
  \/ \E b \in SwitcherBinds : PrinterSetDestination(b[1], b[2])
  \/ \E p \in SwitcherInPipes, df \in SwitcherTables : SwitcherFlow(p, df)
  \/ SwitcherPump

SpecSwitcher == Init /\ [][NextSwitcher]_vars

\* a mapping that sends two values to one pipe name, which
\* Switcher.__init__ accepts like any other
ManyToOneMapping == "1" :> "out1" @@ "2" :> "out1"
ManyToOneArgs == {SampleMapping, ManyToOneMapping}

NextManyToOne ==
  \/ \E mapping \in ManyToOneArgs, strict \in BOOLEAN : SwitcherConstruct(mapping, strict)
  \/ \E p \in SwitcherInPipes : SwitcherSetDestination(p)
  \/ \E o \in SwitcherOutPipes : SwitcherAddOutputPipe(o)
  \/ \E b \in SwitcherBinds : PrinterSetDestination(b[1], b[2])
  \/ \E p \in SwitcherInPipes, df \in SwitcherTables : SwitcherFlow(p, df)
  \/ SwitcherPump

SpecManyToOne == Init /\ [][NextManyToOne]_vars

\* -------------------------------------------------------------------- Copy
\* the envelopes the pipes below the first one of a call chain were handed
EnvelopesBelow(calls) ==
  LET flows == SelectSeq(Tail(calls), LAMBDA e : e.ev = "flow")
  IN  [n \in 1..Len(flows) |-> flows[n].pkg]

\* Pipe.set_destination(copy) -> Copy.add_input_pipe
CopySetDestination(p, c) ==
  /\ destination' = [destination EXCEPT ![p] = c]
  /\ IF copy_inputs[c] = {}
     THEN /\ copy_inputs' = [copy_inputs EXCEPT ![c] = {PipeName(p)}]
          /\ raised' = "none"
     ELSE /\ copy_inputs' = copy_inputs
          /\ raised' = "ValueError: can only have 1 input"
  /\ emit' = <<>>
  /\ trace' = <<>>
  /\ last_call' = Call("bind", p, <<>>)
  /\ UNCHANGED <<originVars, funnelVars, joinerVars, switcherVars, copy_outputs,
                 copy_received_df, copy_attached, heap, printer_inputs>>

\* Copy.add_output_pipe
CopyAddOutputPipe(c, o) ==
  /\ copy_outputs' = [copy_outputs EXCEPT ![c] = DictSet(@, o)]
  /\ copy_attached' =
       [copy_attached EXCEPT ![c] =
          IF \E i \in 1..Len(@) : @[i] = o THEN @ ELSE Append(@, o)]
  /\ raised' = "none"
  /\ emit' = <<>>
  /\ trace' = <<>>
  /\ last_call' = Call("attach", o, <<>>)
  /\ UNCHANGED <<destination, originVars, funnelVars, joinerVars, switcherVars, copy_inputs,
                 copy_received_df, heap, printer_inputs>>

\* Pipe.flow(df) on pipe p called from outside, with the whole chain below it
PipeFlow(p, df) ==
  LET r == PipeFlowRun(p, df, copy_received_df)
  IN  /\ trace' = r.trace
      /\ raised' = r.raised
      /\ copy_received_df' = r.rdf
      /\ emit' = EnvelopesBelow(r.trace)
      /\ heap' = [b \in {r.trace[n].pkg.df.buf : n \in 1..Len(r.trace)} |-> df.rows]
      /\ last_call' = Call("flow", p, <<df>>)
      /\ UNCHANGED <<destination, originVars, funnelVars, joinerVars, switcherVars, copy_inputs,
                     copy_outputs, copy_attached, printer_inputs>>

\* Copy.pump called directly
CopyPump(c) ==
  LET r == CopyPumpRun(c, copy_received_df)
  IN  /\ trace' = r.trace
      /\ raised' = r.raised
      /\ copy_received_df' = r.rdf
      /\ emit' = [n \in 1..Len(SelectSeq(r.trace, LAMBDA e : e.ev = "flow")) |->
                    SelectSeq(r.trace, LAMBDA e : e.ev = "flow")[n].pkg]
      /\ heap' = EmptyDict
      /\ last_call' = Call("pump", "none", <<>>)
      /\ UNCHANGED <<destination, originVars, funnelVars, joinerVars, switcherVars, copy_inputs,
                     copy_outputs, copy_attached, printer_inputs>>

\* the row a consumer adds to the DataFrame it was handed
MutatedRow == "mut"

\* the consumer at the end of pipe o changes in place the DataFrame object it
\* received in the last flow
MutateReceived(o) ==
  /\ last_call.op = "flow"
  /\ \E n \in 1..Len(trace) :
       /\ trace[n].ev = "sink"
       /\ trace[n].pipe = o
       /\ trace[n].node \in Printers
       /\ \A b \in DOMAIN heap : heap[b] = last_call.df[1].rows
       /\ heap' = [heap EXCEPT ![trace[n].pkg.df.buf] = Append(@, MutatedRow)]
  /\ last_call' = Call("mutate", o, last_call.df)
  /\ UNCHANGED <<destination, originVars, funnelVars, joinerVars, switcherVars, copy_inputs,
                 copy_outputs, copy_received_df, copy_attached, printer_inputs,
                 trace, emit, raised>>

\* a Copy with Printers below it: the pipes bound and attached
CopyInPipes == {"p1"}
CopyOutPipes == {"o1", "o2", "o3"}
PrinterBinds == {<<"o1", "printer1">>, <<"o2", "printer2">>, <<"o3", "printer3">>}

NextCopy ==
  \/ \E p \in CopyInPipes : CopySetDestination(p, "copy1")
  \/ \E o \in CopyOutPipes : CopyAddOutputPipe("copy1", o)
  \/ \E b \in PrinterBinds : PrinterSetDestination(b[1], b[2])
  \/ \E p \in CopyInPipes, df \in CopyTables : PipeFlow(p, df)
  \/ CopyPump("copy1")
  \/ \E o \in CopyOutPipes : MutateReceived(o)

SpecCopy == Init /\ [][NextCopy]_vars

\* a Copy with a Printer or a second Copy below its first output: the pipes
\* bound and attached
ChainCopyBinds == {<<"p1", "copy1">>, <<"o1", "copy2">>}
ChainAttaches == {<<"copy1", "o1">>, <<"copy1", "o2">>, <<"copy2", "o4">>}
ChainPrinterBinds ==
  {<<"o1", "printer1">>, <<"o2", "printer2">>, <<"o4", "printer1">>}

NextChain ==
  \/ \E b \in ChainCopyBinds : CopySetDestination(b[1], b[2])
  \/ \E a \in ChainAttaches : CopyAddOutputPipe(a[1], a[2])
  \/ \E b \in ChainPrinterBinds : PrinterSetDestination(b[1], b[2])
  \/ \E p \in CopyInPipes, df \in CopyTables : PipeFlow(p, df)
  \/ \E c \in Copies : CopyPump(c)

SpecChain == Init /\ [][NextChain]_vars

\* ------------------------------------------------- call chains of a graph
\* Generator("gen", 5) of sample_1
GeneratorLength == 5

\* list index out of range, from list(self.outputs.keys())[0]
IndexError == "IndexError: list index out of range"

\* a DataFrame object with the content of df; buf names the object
WithBuf(df, b) == [cols |-> df.cols, rows |-> df.rows, index |-> df.index, buf |-> b]

\* Generator.pump lines 23-24: the numbers 0 .. length - 1 in column "number"
GeneratorDf(length) ==
  WithBuf(Indexed(GenCols, [i \in 1..length |-> ToString(i - 1)]), <<>>)

\* a concatenation that keeps the last table only
PdConcatLastOnly(tables) ==
  WithBuf(Indexed(tables[Len(tables)].cols, tables[Len(tables)].rows), <<>>)

\* pd.concat(dfs, ignore_index=True): a new table with a new RangeIndex
PdConcatIndexed(tables) ==
  WithBuf(Indexed(ConcatCols(tables), ConcatRows(tables)), <<>>)

\* what pd.read_csv returns: <<>> when it raises, else the table it read
CSVReads == {<<>>} \cup {<<WithBuf(t, <<>>)>> : t \in SwitcherTables}

\* the fields of the nodes that a call chain reads and writes, and what the
\* Switcher logged
Store ==
  [copy |-> copy_received_df, dfs |-> dfs, received |-> funnel_received_inputs,
   combined |-> combined_df, switcher |-> switcher_received_df,
   unmatched |-> {}, null |-> {}]

\* the result of a part of a call chain: its calls, the exception it ended
\* with, and the fields of the nodes after it
Went(calls, exc, m) == [trace |-> calls, raised |-> exc, mem |-> m]

RECURSIVE Flow(_, _, _)
RECURSIVE CopyPumpLoop(_, _, _, _)
RECURSIVE SwitcherPumpLoop(_, _, _)

RECURSIVE CopyPumpLoopReversed(_, _, _, _)
\* a loop that takes the outputs from the last attached to the first
CopyPumpLoopReversed(c, k, df, m) ==
  IF k > Len(copy_outputs[c]) THEN Went(<<>>, "none", m)
  ELSE LET r == Flow(copy_outputs[c][Len(copy_outputs[c]) + 1 - k],
                     DfCopy(df, c, Len(copy_outputs[c]) + 1 - k), m)
       IN  IF r.raised # "none" THEN r
           ELSE LET rest == CopyPumpLoopReversed(c, k + 1, df, r.mem)
                IN  Went(r.trace \o rest.trace, rest.raised, rest.mem)

\* Copy.pump lines 314-317: the for loop over the outputs, from the k-th on
CopyPumpLoop(c, k, df, m) ==
  IF k > Len(copy_outputs[c]) THEN Went(<<>>, "none", m)
  ELSE LET r == Flow(copy_outputs[c][k], DfCopy(df, c, k), m)
       IN  IF r.raised # "none" THEN r
           ELSE LET rest == CopyPumpLoop(c, k + 1, df, r.mem)
                IN  Went(r.trace \o rest.trace, rest.raised, rest.mem)

\* a Copy that stores the DataFrame and forwards nothing
CopySinkStoresOnly(c, df, m) == Went(<<>>, "none", [m EXCEPT !.copy[c] = <<df>>])

\* Copy.sink: store the DataFrame, then Copy.pump
CopySink(c, df, m) ==
  IF Len(copy_outputs[c]) = 0
  THEN Went(<<>>, "none", [m EXCEPT !.copy[c] = <<df>>])
  ELSE LET r == CopyPumpLoop(c, 1, df, [m EXCEPT !.copy[c] = <<df>>])
       IN  IF r.raised = "none"
           THEN Went(r.trace, "none", [r.mem EXCEPT !.copy[c] = <<>>])
           ELSE r

\* Funnel.sink: append and count, then merge_and_pump and pump when the
\* count is reached
FunnelSink(df, m) ==
  LET stored == [m EXCEPT !.dfs = Append(@, df), !.received = @ + 1]
  IN  IF FunnelReady(stored.received, funnel_expected_inputs)
      THEN LET merged == [stored EXCEPT
                            !.combined = <<PdConcatIndexed(stored.dfs)>>]
           IN  IF Len(funnel_outputs) > 0
               THEN Flow(funnel_outputs[1], merged.combined[1], merged)
               ELSE Went(<<>>, "none", merged)
      ELSE Went(<<>>, "none", stored)

\* Switcher.pump lines 164-188: the for loop over the values still to do
SwitcherPumpLoop(values, df, acc) ==
  IF values = <<>> THEN acc
  ELSE LET value == Head(values)
           filtered_df == WithBuf(FilteredDf(df, value), <<>>)
       IN  IF SwitcherRoutes(value)
           THEN LET target_pipe == PipeNamed(switcher_outputs, switcher_mapping[1][value])
                    r == Flow(target_pipe, filtered_df, acc.mem)
                    done == Went(acc.trace \o r.trace, r.raised, r.mem)
                IN  IF r.raised # "none" THEN done
                    ELSE SwitcherPumpLoop(Tail(values), df, done)
           ELSE IF SwitcherRaises(fail_on_unmatch)
           THEN [acc EXCEPT !.raised = SwitcherUnmatchError(value)]
           ELSE SwitcherPumpLoop(Tail(values), df,
                                 [acc EXCEPT !.mem.unmatched = @ \cup Labels(filtered_df)])

\* Switcher.sink: validate, store the DataFrame, then Switcher.pump
SwitcherSink(df, m) ==
  IF SwitcherValidation(df) # "none"
  THEN Went(<<>>, SwitcherValidation(df), m)
  ELSE LET r == SwitcherPumpLoop(UniqueValues(df), df,
                                 Went(<<>>, "none", [m EXCEPT !.switcher = <<df>>]))
           nan_df == FilteredDf(df, NullValue)
       IN  IF r.raised # "none" THEN r
           ELSE IF SwitcherNullError(nan_df) # "none"
           THEN Went(r.trace, SwitcherNullError(nan_df), r.mem)
           ELSE Went(r.trace, "none",
                     [r.mem EXCEPT !.switcher = <<>>, !.null = Labels(nan_df)])

\* Pipe.flow(df) on pipe o: the DataPackage it builds, the sink of its
\* destination with all that the sink calls, and its return
Flow(o, df, m) ==
  LET pkg == DataPackage(PipeName(o), df)
      node == destination[o]
  IN  IF node = "none"
      THEN Went(<<Ev("flow", o, pkg)>>, AttributeError, m)
      ELSE LET r == IF node \in Printers THEN Went(<<>>, "none", m)
                    ELSE IF node \in Copies THEN CopySink(node, pkg.df, m)
                    ELSE IF node = "funnel" THEN FunnelSink(pkg.df, m)
                    ELSE SwitcherSink(pkg.df, m)
           IN  Went(<<Ev("flow", o, pkg), Ev("sink", o, pkg)>> \o r.trace
                      \o (IF r.raised = "none"
                          THEN <<Ev("return", o, pkg)>> ELSE <<>>),
                    r.raised, r.mem)

\* the envelopes of the flows of a call chain, in order
Envelopes(calls) ==
  LET flows == SelectSeq(calls, LAMBDA e : e.ev = "flow")
  IN  [n \in 1..Len(flows) |-> flows[n].pkg]

\* the fields of the nodes after a call chain made from outside
Commit(r, call) ==
  /\ trace' = r.trace
  /\ raised' = r.raised
  /\ emit' = Envelopes(r.trace)
  /\ last_call' = call
  /\ copy_received_df' = r.mem.copy
  /\ dfs' = r.mem.dfs
  /\ funnel_received_inputs' = r.mem.received
  /\ combined_df' = r.mem.combined
  /\ switcher_received_df' = r.mem.switcher
  /\ dropped_unmatched' = r.mem.unmatched
  /\ dropped_null' = r.mem.null
  /\ heap' = EmptyDict
  /\ UNCHANGED <<destination, originVars, joinerVars, funnel_inputs, funnel_outputs,
                 funnel_expected_inputs, round_start, round_pipes, late_bind,
                 switcher_mapping, fail_on_unmatch, switcher_inputs,
                 switcher_outputs, copy_inputs, copy_outputs, copy_attached,
                 printer_inputs>>

\* Generator.add_output_pipe, CSVOrigin.add_output_pipe
OriginAddOutputPipe(g, o) ==
  /\ IF Len(origin_outputs[g]) = 0
     THEN /\ origin_outputs' = [origin_outputs EXCEPT ![g] = <<o>>]
          /\ raised' = "none"
     ELSE /\ origin_outputs' = origin_outputs
          /\ raised' = "ValueError: can only have 1 output"
  /\ emit' = <<>>
  /\ trace' = <<>>
  /\ last_call' = Call("attach", o, <<>>)
  /\ UNCHANGED <<destination, funnelVars, joinerVars, switcherVars, copyVars,
                 printer_inputs, stack>>

\* Generator.pump lines 23-25
GeneratorPumpRun(g) ==
  IF Len(origin_outputs[g]) = 0
  THEN Went(<<>>, IndexError, Store)
  ELSE Flow(origin_outputs[g][1], GeneratorDf(GeneratorLength), Store)

\* CSVOrigin.pump lines 221-237: read_csv and the flow inside try, every
\* exception printed by the except clause
CSVOriginPumpRun(g, read) ==
  IF read = <<>> \/ Len(origin_outputs[g]) = 0
  THEN Went(<<>>, "none", Store)
  ELSE LET r == Flow(origin_outputs[g][1], read[1], Store)
       IN  Went(r.trace, "none", r.mem)

\* Generator.pump called from outside, with the whole chain below it
GeneratorPump(g) ==
  LET r == GeneratorPumpRun(g)
  IN  /\ Len(r.mem.dfs) <= MaxRecv
      /\ Commit(r, Call("pump", g, <<>>))

\* CSVOrigin.pump called from outside, with the whole chain below it
CSVOriginPump(g, read) ==
  LET r == CSVOriginPumpRun(g, read)
  IN  /\ Len(r.mem.dfs) <= MaxRecv
      /\ Commit(r, Call("pump", g, read))

\* an origin with a Switcher and its Printers below it: the pipes bound and
\* attached
OriginAttaches == {<<"gen1", "p1">>, <<"csv1", "p1">>}

NextOrigin ==
  \/ \E a \in OriginAttaches : OriginAddOutputPipe(a[1], a[2])
  \/ \E mapping \in MappingArgs, strict \in BOOLEAN : SwitcherConstruct(mapping, strict)
  \/ \E p \in SwitcherInPipes : SwitcherSetDestination(p)
  \/ \E o \in SwitcherOutPipes : SwitcherAddOutputPipe(o)
  \/ \E b \in SwitcherBinds : PrinterSetDestination(b[1], b[2])
  \/ GeneratorPump("gen1")
  \/ \E read \in CSVReads : CSVOriginPump("csv1", read)
  \/ SwitcherPump

SpecOrigin == Init /\ [][NextOrigin]_vars

\* the attach operations of every node type
BuildInPipes == {"p1", "p2"}

NextBuild ==
  \/ OriginAddOutputPipe("gen1", "p1")
  \/ FunnelAddOutputPipe("o1")
  \/ JoinerConstruct("inner")
  \/ \E p \in BuildInPipes : JoinerSetDestination(p)
  \/ JoinerAddOutputPipe("o1")
  \/ SwitcherConstruct(SampleMapping, FALSE)
  \/ SwitcherSetDestination("p1")
  \/ CopySetDestination("p1", "copy1")
  \/ PrinterSetDestination("p1", "printer1")

SpecBuild == Init /\ [][NextBuild]_vars

\* the diamond: a Generator, a Copy, two branches into one Funnel, a Printer
DiamondBranches == {"o1", "o2"}
DiamondPrinterBinds == {<<"o4", "printer1">>, <<"o2", "printer2">>}

NextDiamond ==
  \/ OriginAddOutputPipe("gen1", "p1")
  \/ CopySetDestination("p1", "copy1")
  \/ \E o \in DiamondBranches : CopyAddOutputPipe("copy1", o)
  \/ \E o \in DiamondBranches : FunnelSetDestination(o)
  \/ FunnelAddOutputPipe("o4")
  \/ \E b \in DiamondPrinterBinds : PrinterSetDestination(b[1], b[2])
  \/ GeneratorPump("gen1")

SpecDiamond == Init /\ [][NextDiamond]_vars

\* --------------------------------------------- a pump, one call at a time
\* the calls still to be made: a flow on a pipe, the statements of a node's
\* pump after its flows, a raise
FlowFrame(o, df) ==
  [kind |-> "flow", pipe |-> o, node |-> "none", df |-> <<df>>, error |-> "none"]
AfterFrame(node) ==
  [kind |-> "after", pipe |-> "none", node |-> node, df |-> <<>>, error |-> "none"]
RaiseFrame(error) ==
  [kind |-> "raise", pipe |-> "none", node |-> "none", df |-> <<>>, error |-> error]

\* the fields of the nodes that a call reads and writes
RunStore ==
  [copy |-> copy_received_df, dfs |-> dfs, received |-> funnel_received_inputs,
   combined |-> combined_df, switcher |-> switcher_received_df,
   unmatched |-> dropped_unmatched, null |-> dropped_null,
   jdfs |-> received_dfs, jreceived |-> joiner_received_inputs]

\* what one call does: the calls it makes next, the exception it raises and
\* the fields of the nodes after it
Did(frames, exc, m) == [push |-> frames, raised |-> exc, mem |-> m]

\* a Printer whose sink flows again on the pipe it received from
PrinterCallsAgain(o, df, m) == Did(<<FlowFrame(o, df)>>, "none", m)

\* Printer.sink lines 39-41: prints, calls nothing
PrinterCalls(o, df, m) == Did(<<>>, "none", m)

\* Copy.sink and Copy.pump lines 300-322: the flows of the loop, then the
\* reset of received_df
CopyCalls(c, df, m) ==
  LET stored == [m EXCEPT !.copy[c] = <<df>>]
  IN  IF Len(copy_outputs[c]) = 0 THEN Did(<<>>, "none", stored)
      ELSE Did([k \in 1..Len(copy_outputs[c]) |->
                  FlowFrame(copy_outputs[c][k], DfCopy(df, c, k))]
                 \o <<AfterFrame(c)>>, "none", stored)

\* Funnel.sink, merge_and_pump and pump lines 65-98
FunnelCalls(df, m) ==
  LET stored == [m EXCEPT !.dfs = Append(@, df), !.received = @ + 1]
  IN  IF FunnelReady(stored.received, funnel_expected_inputs)
      THEN LET merged == [stored EXCEPT
                            !.combined = <<PdConcatIndexed(stored.dfs)>>]
           IN  IF Len(funnel_outputs) > 0
               THEN Did(<<FlowFrame(funnel_outputs[1], merged.combined[1])>>,
                        "none", merged)
               ELSE Did(<<>>, "none", merged)
      ELSE Did(<<>>, "none", stored)

RECURSIVE SwitcherFrames(_, _)
\* Switcher.pump lines 164-188: the flows of the loop over the values, up to
\* the first value that raises
SwitcherFrames(values, df) ==
  IF values = <<>> THEN <<>>
  ELSE IF SwitcherRoutes(Head(values))
  THEN <<FlowFrame(PipeNamed(switcher_outputs, switcher_mapping[1][Head(values)]),
                   WithBuf(FilteredDf(df, Head(values)), <<>>))>>
         \o SwitcherFrames(Tail(values), df)
  ELSE IF SwitcherRaises(fail_on_unmatch)
  THEN <<RaiseFrame(SwitcherUnmatchError(Head(values)))>>
  ELSE SwitcherFrames(Tail(values), df)

\* Switcher.pump lines 181 and 188: the rows the loop logs and ignores
SwitcherIgnored(df) ==
  IF SwitcherRaises(fail_on_unmatch) THEN {}
  ELSE {df.index[i] : i \in {j \in 1..Len(df.rows) :
                               NotNa(df.rows[j]) /\ ~SwitcherRoutes(df.rows[j])}}

\* Switcher.sink lines 130-150 and the loop of Switcher.pump
SwitcherCalls(df, m) ==
  IF SwitcherValidation(df) # "none" THEN Did(<<>>, SwitcherValidation(df), m)
  ELSE Did(SwitcherFrames(UniqueValues(df), df) \o <<AfterFrame("switcher")>>,
           "none",
           [m EXCEPT !.switcher = <<df>>, !.unmatched = SwitcherIgnored(df)])

\* Joiner.sink lines 672-695 and Joiner.pump lines 697-745
JoinerCalls(o, df, m) ==
  IF ~JoinerPipeExpected(PipeName(o)) THEN Did(<<>>, "ValueError: unexpected pipe", m)
  ELSE IF ~JoinerKeyPresent(df) THEN Did(<<>>, "ValueError: key field not found", m)
  ELSE LET stored == [m EXCEPT !.jdfs = JoinerStored(@, PipeName(o), df),
                               !.jreceived = @ + 1]
       IN  IF ~JoinerReady(stored.jreceived) THEN Did(<<>>, "none", stored)
           ELSE IF ~JoinerPumpRuns(stored.jdfs, joiner_outputs)
           THEN Did(<<>>, "none", stored)
           ELSE IF JoinerPumpRaises(stored.jdfs) # "none"
           THEN Did(<<>>, JoinerPumpRaises(stored.jdfs), stored)
           ELSE IF PdMergeRaises(stored.jdfs[LeftPipeName], stored.jdfs[RightPipeName])
           THEN Did(<<AfterFrame("joiner")>>, "none", stored)
           ELSE Did(<<FlowFrame(joiner_outputs[1],
                                PdMerge(stored.jdfs[LeftPipeName],
                                        stored.jdfs[RightPipeName], join_type)),
                      AfterFrame("joiner")>>, "none", stored)

\* the statements of a node's pump after its flows: Copy.pump line 322,
\* Switcher.pump lines 190-202, Joiner.pump lines 747-749
AfterCalls(node, m) ==
  IF node \in Copies THEN Did(<<>>, "none", [m EXCEPT !.copy[node] = <<>>])
  ELSE IF node = "joiner"
  THEN Did(<<>>, "none", [m EXCEPT !.jdfs = JoinerCleared(@), !.jreceived = 0])
  ELSE LET nan_df == FilteredDf(m.switcher[1], NullValue)
       IN  IF SwitcherNullError(nan_df) # "none"
           THEN Did(<<>>, SwitcherNullError(nan_df), m)
           ELSE Did(<<>>, "none",
                    [m EXCEPT !.switcher = <<>>, !.null = Labels(nan_df)])

\* Pipe.flow lines 37-39: the sink of the destination of the pipe
FlowCalls(o, df, m) ==
  LET node == destination[o]
  IN  IF node = "none" THEN Did(<<>>, AttributeError, m)
      ELSE IF node \in Printers THEN PrinterCalls(o, df, m)
      ELSE IF node \in Copies THEN CopyCalls(node, df, m)
      ELSE IF node = "funnel" THEN FunnelCalls(df, m)
      ELSE IF node = "joiner" THEN JoinerCalls(o, df, m)
      ELSE SwitcherCalls(df, m)

\* the next call of the running pump
Called(frame, m) ==
  IF frame.kind = "flow" THEN FlowCalls(frame.pipe, frame.df[1], m)
  ELSE IF frame.kind = "after" THEN AfterCalls(frame.node, m)
  ELSE Did(<<>>, frame.error, m)

RECURSIVE Unwind(_)
\* an exception leaves the calls still to be made up to the except clause
\* of Joiner.pump (lines 743-745), after which the Joiner's cleanup runs
Unwind(frames) ==
  IF frames = <<>> THEN <<>>
  ELSE IF Head(frames).kind = "after" /\ Head(frames).node = "joiner" THEN frames
  ELSE Unwind(Tail(frames))

\* Generator.pump called from outside: its first call
RunStart(g) ==
  /\ stack = <<>>
  /\ Len(dfs) + 2 <= MaxRecv
  /\ IF Len(origin_outputs[g]) = 0
     THEN /\ stack' = <<>>
          /\ raised' = IndexError
     ELSE /\ stack' = <<FlowFrame(origin_outputs[g][1], GeneratorDf(GeneratorLength))>>
          /\ raised' = "none"
  /\ last_call' = Call("pump", g, <<>>)
  /\ trace' = <<>>
  /\ emit' = <<>>
  /\ dropped_unmatched' = {}
  /\ dropped_null' = {}
  /\ UNCHANGED <<destination, origin_outputs, funnelVars, joinerVars, copyVars,
                 printer_inputs, switcher_mapping, fail_on_unmatch,
                 switcher_inputs, switcher_outputs, switcher_received_df>>

\* the running pump makes its next call
RunStep ==
  /\ stack # <<>>
  /\ LET r == Called(Head(stack), RunStore)
     IN  /\ stack' = IF r.raised = "none" THEN r.push \o Tail(stack)
                     ELSE Unwind(Tail(stack))
         /\ raised' = IF r.raised # "none" /\ Unwind(Tail(stack)) = <<>>
                      THEN r.raised ELSE raised
         /\ copy_received_df' = r.mem.copy
         /\ dfs' = r.mem.dfs
         /\ funnel_received_inputs' = r.mem.received
         /\ combined_df' = r.mem.combined
         /\ switcher_received_df' = r.mem.switcher
         /\ dropped_unmatched' = r.mem.unmatched
         /\ dropped_null' = r.mem.null
         /\ received_dfs' = r.mem.jdfs
         /\ joiner_received_inputs' = r.mem.jreceived
  /\ UNCHANGED <<destination, origin_outputs, funnel_inputs, funnel_outputs,
                 funnel_expected_inputs, round_start, round_pipes, late_bind,
                 join_type, joiner_inputs, joiner_outputs, joiner_rounds, last_flow,
                 switcher_mapping, fail_on_unmatch, switcher_inputs,
                 switcher_outputs, copy_inputs, copy_outputs, copy_attached, heap,
                 printer_inputs, trace, last_call, emit>>

\* an acyclic graph below one Generator: a Copy, branches into a Funnel, a
\* Joiner or a Printer, a Switcher below the Funnel, a Printer below the
\* Switcher; it is built while no pump is running, each pipe bound once
RunBranches == {"o1", "o2"}
RunPrinterBinds == {<<"o3", "printer1">>, <<"o2", "printer2">>}

\* no pump is running
Idle == stack = <<>>

\* no consumer has been given to the pipe yet
Unbound(o) == destination[o] = "none"

NextRun ==
  \/ Idle /\ OriginAddOutputPipe("gen1", "p1")
  \/ Idle /\ Unbound("p1") /\ CopySetDestination("p1", "copy1")
  \/ \E o \in RunBranches : Idle /\ CopyAddOutputPipe("copy1", o)
  \/ \E o \in RunBranches : Idle /\ Unbound(o) /\ FunnelSetDestination(o)
  \/ Idle /\ FunnelAddOutputPipe("o4")
  \/ Idle /\ JoinerConstruct("inner")
  \/ Idle /\ Unbound("o2") /\ JoinerSetDestination("o2")
  \/ \E strict \in BOOLEAN : Idle /\ SwitcherConstruct(SampleMapping, strict)
  \/ Idle /\ Unbound("o4") /\ SwitcherSetDestination("o4")
  \/ Idle /\ SwitcherAddOutputPipe("o3")
  \/ \E b \in RunPrinterBinds : Idle /\ Unbound(b[1]) /\ PrinterSetDestination(b[1], b[2])
  \/ RunStart("gen1")
  \/ RunStep

SpecRun == Init /\ [][NextRun]_vars

\* the interpreter makes the next call of a running pump: nothing else runs
\* in the process until the pump returns
SpecRunFair == SpecRun /\ WF_vars(RunStep)

\* sample_1: three Generators into one Funnel, a Switcher below it that
\* routes 1 and 2 to two Printers and drops the rest
SampleInputs == 3
SampleAttaches == {<<"gen1", "p1">>, <<"gen2", "p2">>, <<"gen3", "p3">>}
SampleFunnelPipes == {"p1", "p2", "p3"}
SamplePrinterBinds == {<<"o1", "printer1">>, <<"o2", "printer2">>}

\* generatorN.add_output_pipe(pipeN).set_destination(funnel): the bind of
\* the pipe that add_output_pipe returned, once for each of the three pipes
SampleFunnelSetDestination(p) ==
  /\ funnel_expected_inputs < SampleInputs
  /\ destination[p] = "none"
  /\ \E a \in SampleAttaches : a[2] = p /\ origin_outputs[a[1]] = <<p>>
  /\ FunnelBind(p)

\* funnel.add_output_pipe(pipe_to_switcher).set_destination(switcher)
SampleSwitcherSetDestination(o) ==
  /\ funnel_outputs = <<o>>
  /\ SwitcherSetDestination(o)

\* switcher.add_output_pipe(pipe).set_destination(printer)
SamplePrinterSetDestination(o, pr) ==
  /\ HasName(switcher_outputs, PipeName(o))
  /\ PrinterSetDestination(o, pr)

NextSample ==
  \/ \E a \in SampleAttaches : OriginAddOutputPipe(a[1], a[2])
  \/ \E p \in SampleFunnelPipes : SampleFunnelSetDestination(p)
  \/ FunnelAddOutputPipe("o4")
  \/ SwitcherConstruct(SampleMapping, FALSE)
  \/ SampleSwitcherSetDestination("o4")
  \/ \E o \in OutPipes : SwitcherAddOutputPipe(o)
  \/ \E b \in SamplePrinterBinds : SamplePrinterSetDestination(b[1], b[2])
  \/ \E g \in Generators : GeneratorPump(g)

SpecSample == Init /\ [][NextSample]_vars

\* ------------------------------------------------------- Funnel properties
RECURSIVE RowCount(_)
RowCount(tables) ==
  IF tables = <<>> THEN 0 ELSE Len(tables[1].rows) + RowCount(Tail(tables))

\* the tables received since the last merge, in the state after a receive
RoundTables(buffer, start) == SubSeq(buffer, start + 1, Len(buffer))

\* rows is made of the rows of the tables, table after table, in list order
IsConcatenationOf(rows, tables) ==
  /\ Len(rows) = RowCount(tables)
  /\ \A i \in 1..Len(tables) : \A j \in 1..Len(tables[i].rows) :
       rows[RowCount(SubSeq(tables, 1, i - 1)) + j] = tables[i].rows[j]

\* C1: a receive that brings received_inputs below expected_inputs only
\* buffers the table and forwards nothing; a receive forwards only when it
\* brings received_inputs to expected_inputs.
C1_FunnelNoPartialEmit ==
  [][\A p \in FunnelPipes, df \in FunnelTables :
       (dfs' # dfs /\ FunnelFlow(p, df)) =>
         /\ funnel_received_inputs' < funnel_expected_inputs =>
              /\ emit' = <<>>
              /\ dfs' = Append(dfs, df)
              /\ combined_df' = combined_df
         /\ emit' # <<>> => funnel_received_inputs' = funnel_expected_inputs]_vars

\* a Funnel with 2 inputs has just forwarded at its second receive
C1_Witness ==
  /\ emit # <<>>
  /\ funnel_expected_inputs = 2
  /\ funnel_received_inputs = 2
  /\ Len(dfs) = 2

\* C2: once the Funnel has merged and forwarded, its buffer is empty and
\* its received count is 0 (it is re-armed for the next round).
C2_FunnelReArms ==
  [][\A p \in FunnelPipes, df \in FunnelTables :
       (emit' # <<>> /\ FunnelFlow(p, df)) =>
         (dfs' = <<>> /\ funnel_received_inputs' = 0)]_vars

\* C3: a Funnel whose inputs were all bound before its first receive forwards
\* only when every pipe bound to it has delivered in the round it completes.
C3_FunnelEveryChannelDelivered ==
  [][\A p \in FunnelPipes, df \in FunnelTables :
       (emit' # <<>> /\ ~late_bind /\ FunnelFlow(p, df)) =>
         \A q \in FunnelPipes :
           destination[q] = "funnel" => q \in round_pipes']_vars

Roles == {LeftPipeName, RightPipeName}

OtherRole(name) == IF name = LeftPipeName THEN RightPipeName ELSE LeftPipeName

\* the (left row, right row) pairs with equal key
MatchingPairs(left, right) ==
  {pr \in (1..Len(left)) \X (1..Len(right)) : left[pr[1]] = right[pr[2]]}

\* the right rows with the key of left row i
MatchesOf(i, left, right) == {j \in 1..Len(right) : right[j] = left[i]}

NoRepeatedKey(rows) ==
  \A i, j \in 1..Len(rows) : rows[i] = rows[j] => i = j

RECURSIVE SumOver(_, _)
\* the sum of f[i] over the set of indices
SumOver(f, indices) ==
  IF indices = {} THEN 0
  ELSE LET i == CHOOSE x \in indices : TRUE
       IN  f[i] + SumOver(f, indices \ {i})

C6_JoinerReArms ==
  [][emit' # <<>> =>
     \A p \in JoinerPipes, df \in JoinerTables :
       JoinerFlow(p, df) =>
         /\ received_dfs' = EmptyDict
         /\ joiner_received_inputs' = 0
         /\ joiner_received_inputs = 1
         /\ LET dict == JoinerStored(received_dfs, PipeName(p), df)
            IN  emit'[1].df = PdMerge(dict[LeftPipeName], dict[RightPipeName], join_type)]_vars

\* a second round has been joined and forwarded
C6_Witness ==
  /\ emit # <<>>
  /\ joiner_rounds = 2
  /\ received_dfs = EmptyDict
  /\ joiner_received_inputs = 0

\* C7: when one role is populated (also after that role delivered twice) and
\* the other role arrives with a table that joins with the one held, with an
\* output attached, the Joiner forwards once the join of the table it holds
\* with the arriving table.
C7_JoinerOverwriteThenJoin ==
  [][( /\ Len(joiner_outputs) > 0
       /\ last_flow'.pipe_name \in Roles
       /\ last_flow'.keyed
       /\ DOMAIN received_dfs = {OtherRole(last_flow'.pipe_name)}
       /\ received_dfs[OtherRole(last_flow'.pipe_name)].key_dtype
            = last_flow'.key_dtype )
     => /\ Len(emit') = 1
        /\ \A p \in JoinerPipes, df \in JoinerTables :
             JoinerFlow(p, df) =>
               LET dict == JoinerStored(received_dfs, PipeName(p), df)
               IN  emit'[1].df =
                     PdMerge(dict[LeftPipeName], dict[RightPipeName], join_type)]_vars

\* C8: a receive from a pipe that is neither configured pipe, or of a table
\* without the key column, raises and changes neither the slots nor the
\* received count, and forwards nothing.
C8_JoinerValidatesFirst ==
  [][/\ (last_flow' # NoFlow /\ last_flow'.pipe_name \notin Roles) =>
          /\ raised' = "ValueError: unexpected pipe"
          /\ UNCHANGED <<received_dfs, joiner_received_inputs>>
          /\ emit' = <<>>
     /\ (last_flow'.pipe_name \in Roles /\ ~last_flow'.keyed) =>
          /\ raised' = "ValueError: key field not found"
          /\ UNCHANGED <<received_dfs, joiner_received_inputs>>
          /\ emit' = <<>>]_vars

\* a table without the key was refused while one role was already stored
C8_Witness ==
  /\ raised = "ValueError: key field not found"
  /\ last_flow.pipe_name = RightPipeName
  /\ ~last_flow.keyed
  /\ joiner_received_inputs = 1
  /\ DOMAIN received_dfs = {LeftPipeName}

\* C9: an inner join forwards at most min(|left|, |right|) rows, as many as
\* there are (left row, right row) pairs with equal key.
C9_InnerAtMostMin ==
  [][(emit' # <<>> /\ join_type = "inner") =>
     \A p \in JoinerPipes, df \in JoinerTables :
       JoinerFlow(p, df) =>
         LET dict == JoinerStored(received_dfs, PipeName(p), df)
             left == dict[LeftPipeName].rows
             right == dict[RightPipeName].rows
         IN  /\ Len(emit'[1].df.rows) <= Min(Len(left), Len(right))
             /\ Len(emit'[1].df.rows) = Cardinality(MatchingPairs(left, right))]_vars

\* C9, amended: an inner join forwards one row per (left row, right row) pair
\* with equal key, each pair once; that is at most min(|left|, |right|) rows
\* when no key value is repeated within the left or within the right table.
C9_InnerMatchingPairs ==
  [][(emit' # <<>> /\ join_type = "inner") =>
     \A p \in JoinerPipes, df \in JoinerTables :
       JoinerFlow(p, df) =>
         LET dict == JoinerStored(received_dfs, PipeName(p), df)
             left == dict[LeftPipeName].rows
             right == dict[RightPipeName].rows
             out == emit'[1].df.rows
         IN  /\ Len(out) = Cardinality(MatchingPairs(left, right))
             /\ {<<out[n].l, out[n].r>> : n \in 1..Len(out)} = MatchingPairs(left, right)
             /\ \A n \in 1..Len(out) : out[n].key = left[out[n].l]
             /\ (NoRepeatedKey(left) /\ NoRepeatedKey(right)) =>
                  Len(out) <= Min(Len(left), Len(right))]_vars

\* an inner join of two tables that repeat a key forwarded 4 rows
C9_Witness ==
  /\ join_type = "inner"
  /\ emit # <<>>
  /\ Len(emit[1].df.rows) = 4

\* C10: a left join forwards exactly |left| rows.
C10_LeftExactlyLeftRows ==
  [][(emit' # <<>> /\ join_type = "left") =>
     \A p \in JoinerPipes, df \in JoinerTables :
       JoinerFlow(p, df) =>
         LET dict == JoinerStored(received_dfs, PipeName(p), df)
         IN  Len(emit'[1].df.rows) = Len(dict[LeftPipeName].rows)]_vars

\* C10, amended: a left join forwards, for every left row, one row per right
\* row with the same key, or one row with the right side null if there is
\* none; that is exactly |left| rows when no key value is repeated within the
\* right table.
C10_LeftJoinRows ==
  [][(emit' # <<>> /\ join_type = "left") =>
     \A p \in JoinerPipes, df \in JoinerTables :
       JoinerFlow(p, df) =>
         LET dict == JoinerStored(received_dfs, PipeName(p), df)
             left == dict[LeftPipeName].rows
             right == dict[RightPipeName].rows
             out == emit'[1].df.rows
             perRow == [i \in 1..Len(left) |->
                          IF MatchesOf(i, left, right) = {} THEN 1
                          ELSE Cardinality(MatchesOf(i, left, right))]
         IN  /\ Len(out) = SumOver(perRow, 1..Len(left))
             /\ \A i \in 1..Len(left) :
                  {out[n].r : n \in {m \in 1..Len(out) : out[m].l = i}}
                    = IF MatchesOf(i, left, right) = {} THEN {0}
                      ELSE MatchesOf(i, left, right)
             /\ \A n \in 1..Len(out) :
                  /\ out[n].l \in 1..Len(left)
                  /\ out[n].key = left[out[n].l]
             /\ NoRepeatedKey(right) => Len(out) = Len(left)]_vars

\* a left join forwarded a row with a null right side and two rows for one
\* left row
C10_Witness ==
  /\ join_type = "left"
  /\ emit # <<>>
  /\ \E n \in 1..Len(emit[1].df.rows) : emit[1].df.rows[n].r = 0
  /\ \E n, m \in 1..Len(emit[1].df.rows) :
       /\ n # m
       /\ emit[1].df.rows[n].l = emit[1].df.rows[m].l

\* ----------------------------------------------------- Switcher properties
\* the last call was a flow into the Switcher
SwitcherReceived(call) == call.op = "flow" /\ call.pipe \in SwitcherInPipes

\* the (envelope, row) positions at which the envelopes carry the row label
ForwardedAt(label, sent) ==
  {nk \in UNION {{<<n, k>> : k \in 1..Len(sent[n].df.index)} : n \in 1..Len(sent)} :
     sent[nk[1]].df.index[nk[2]] = label}

\* the labels of the rows of df whose field is v
LabelsOf(df, v) == {i \in 1..Len(df.rows) : df.rows[i] = v}

\* the distinct non-null values of the field
Distinct(df) == {df.rows[i] : i \in 1..Len(df.rows)} \ {NullValue}

\* the envelopes that carry rows whose field is v
EnvelopesOf(v, sent) ==
  {n \in 1..Len(sent) : \E k \in 1..Len(sent[n].df.rows) : sent[n].df.rows[k] = v}

\* C11: after a receive that did not raise, every row of the batch is in
\* exactly one of: a partition forwarded on an output pipe, the rows dropped
\* as unmatched, the rows dropped as null; no row is forwarded twice, and a
\* forwarded row is the input row of that label.
C11_SwitcherPartitionComplete ==
  [][(SwitcherReceived(last_call') /\ raised' = "none") =>
       LET df == last_call'.df[1]
       IN  /\ \A l \in 1..Len(df.rows) :
                Cardinality(ForwardedAt(l, emit'))
                  + (IF l \in dropped_unmatched' THEN 1 ELSE 0)
                  + (IF l \in dropped_null' THEN 1 ELSE 0) = 1
           /\ \A n \in 1..Len(emit') : \A k \in 1..Len(emit'[n].df.rows) :
                /\ emit'[n].df.index[k] \in 1..Len(df.rows)
                /\ emit'[n].df.rows[k] = df.rows[emit'[n].df.index[k]]
           /\ dropped_unmatched' \cup dropped_null' \subseteq 1..Len(df.rows)]_vars

\* a batch of a routed row and a null row was received: one row forwarded,
\* one dropped as null
C11_Witness ==
  /\ SwitcherReceived(last_call)
  /\ raised = "none"
  /\ last_call.df[1].rows = <<"1", NullValue>>
  /\ Len(emit) = 1
  /\ dropped_null = {2}
  /\ dropped_unmatched = {}

\* every pipe attached to the Switcher is bound to a consumer
SwitcherOutputsBound ==
  \A i \in 1..Len(switcher_outputs) : destination[switcher_outputs[i]] # "none"

\* C12: a receive of a batch that passes the validation, by a Switcher whose
\* output pipes are all bound, forwards the partition of a distinct value v
\* if and only if v is a key of the mapping and a pipe named mapping[v] is
\* attached; what is forwarded for v goes through that pipe and carries all
\* rows whose field is v.
C12_SwitcherForwardsIffMapped ==
  [][(SwitcherReceived(last_call') /\ SwitcherOutputsBound
        /\ SwitcherValidation(last_call'.df[1]) = "none") =>
       LET df == last_call'.df[1]
       IN  \A v \in Distinct(df) :
             /\ (EnvelopesOf(v, emit') # {}) <=> SwitcherRoutes(v)
             /\ \A n \in EnvelopesOf(v, emit') :
                  /\ emit'[n].pipe_name = switcher_mapping[1][v]
                  /\ Labels(emit'[n].df) = LabelsOf(df, v)]_vars

\* C12, amended: what a receive forwards for a value v goes through the pipe
\* named mapping[v], which is attached, and carries all rows whose field is v
\* and no other row; a receive that does not raise forwards the partition of
\* v if and only if v is a key of the mapping and a pipe named mapping[v] is
\* attached.
C12_SwitcherForwardsMapped ==
  [][SwitcherReceived(last_call') =>
       LET df == last_call'.df[1]
       IN  \A v \in Distinct(df) :
             /\ (EnvelopesOf(v, emit') # {}) => SwitcherRoutes(v)
             /\ raised' = "none" =>
                  ((EnvelopesOf(v, emit') # {}) <=> SwitcherRoutes(v))
             /\ Cardinality(EnvelopesOf(v, emit')) <= 1
             /\ \A n \in EnvelopesOf(v, emit') :
                  /\ emit'[n].pipe_name = switcher_mapping[1][v]
                  /\ HasName(switcher_outputs, emit'[n].pipe_name)
                  /\ Labels(emit'[n].df) = LabelsOf(df, v)
                  /\ \A k \in 1..Len(emit'[n].df.rows) : emit'[n].df.rows[k] = v]_vars

\* two rows of one routed value were forwarded together while the other
\* routed value of the mapping was absent from the batch
C12_Witness ==
  /\ SwitcherReceived(last_call)
  /\ raised = "none"
  /\ last_call.df[1].rows = <<"2", "2">>
  /\ Len(emit) = 1
  /\ emit[1].pipe_name = "out2"
  /\ emit[1].df.index = <<1, 2>>

\* the batch holds a non-null value that is no key of the mapping, a value
\* whose mapped pipe is not attached, or a row with a null field
HasUnroutedOrNull(df) ==
  \/ \E v \in Distinct(df) : ~SwitcherRoutes(v)
  \/ LabelsOf(df, NullValue) # {}

\* C13: with fail_on_unmatch set, a receive of a batch holding a non-null
\* value that is no mapping key, a value whose mapped pipe is not attached,
\* or a row with a null field ends with an exception.
C13_SwitcherStrictRaises ==
  [][(SwitcherReceived(last_call') /\ fail_on_unmatch) =>
       LET df == last_call'.df[1]
       IN  /\ HasUnroutedOrNull(df) => raised' # "none"
           /\ (SwitcherValidation(df) = "none" /\ LabelsOf(df, NullValue) # {}
                 /\ \A v \in Distinct(df) :
                      SwitcherRoutes(v)
                        /\ destination[PipeNamed(switcher_outputs,
                                                 switcher_mapping[1][v])] # "none")
                => raised' = "ValueError: rows with NaN values"]_vars

\* a strict Switcher raised on the null row of a batch whose other row it routed
C13_Witness ==
  /\ SwitcherReceived(last_call)
  /\ fail_on_unmatch
  /\ last_call.df[1].rows = <<"1", NullValue>>
  /\ raised = "ValueError: rows with NaN values"
  /\ Len(emit) = 1

\* the exceptions Switcher.pump raises on values it does not route and on nulls
SwitcherRoutingErrors ==
  {"ValueError: target pipe not found in outputs",
   "ValueError: no mapping found for value",
   "ValueError: rows with NaN values"}

\* C14: with fail_on_unmatch off, a receive of a batch that passed the
\* validation never ends with a routing exception; unless a pipe below
\* raises, it ends normally, having forwarded the partition of every routed
\* value and dropped exactly the rows of the values not routed and the null
\* rows.
C14_SwitcherLenientDrops ==
  [][(SwitcherReceived(last_call') /\ ~fail_on_unmatch
        /\ SwitcherValidation(last_call'.df[1]) = "none") =>
       LET df == last_call'.df[1]
       IN  /\ raised' \notin SwitcherRoutingErrors
           /\ raised' \in {"none", AttributeError}
           /\ SwitcherOutputsBound => raised' = "none"
           /\ raised' = "none" =>
                /\ \A v \in Distinct(df) :
                     SwitcherRoutes(v) =>
                       \E n \in 1..Len(emit') : Labels(emit'[n].df) = LabelsOf(df, v)
                /\ dropped_unmatched' =
                     UNION {LabelsOf(df, v) : v \in {w \in Distinct(df) : ~SwitcherRoutes(w)}}
                /\ dropped_null' = LabelsOf(df, NullValue)]_vars

\* a lenient Switcher dropped an unmapped value and then forwarded the routed
\* value that came after it
C14_Witness ==
  /\ SwitcherReceived(last_call)
  /\ ~fail_on_unmatch
  /\ last_call.df[1].rows = <<"2", "1">>
  /\ DOMAIN switcher_mapping[1] = {"1"}
  /\ raised = "none"
  /\ dropped_unmatched = {1}
  /\ Len(emit) = 1
  /\ emit[1].df.index = <<2>>

\* C15: a receive of a batch without the field, or with a non-null value of
\* the field that is neither a string nor an integer, raises the validation
\* error, forwards nothing, calls no pipe and leaves the Switcher as it was.
C15_SwitcherValidatesFirst ==
  [][SwitcherReceived(last_call') =>
       LET df == last_call'.df[1]
           invalid == \E i \in 1..Len(df.rows) :
                        df.rows[i] # NullValue /\ df.rows[i] \notin {"1", "2"}
       IN  /\ SwitcherField \notin df.cols =>
                /\ raised' = "ValueError: field not found"
                /\ emit' = <<>> /\ trace' = <<>>
                /\ UNCHANGED <<switcher_received_df, switcher_mapping, fail_on_unmatch,
                               switcher_inputs, switcher_outputs>>
           /\ (SwitcherField \in df.cols /\ invalid) =>
                /\ raised' = "ValueError: non-string/non-integer values"
                /\ emit' = <<>> /\ trace' = <<>>
                /\ UNCHANGED <<switcher_received_df, switcher_mapping, fail_on_unmatch,
                               switcher_inputs, switcher_outputs>>]_vars

\* a batch with a routed value and a value of another type was refused by a
\* Switcher with an output attached and bound
C15_Witness ==
  /\ SwitcherReceived(last_call)
  /\ last_call.df[1].rows = <<"1", FloatValue>>
  /\ raised = "ValueError: non-string/non-integer values"
  /\ HasName(switcher_outputs, "out1")
  /\ destination["o1"] = "printer1"
  /\ emit = <<>>
  /\ switcher_received_df = <<>>

\* --------------------------------------------------------- Copy properties
\* the flows made below the first call of a call chain, in order
FlowsBelow(calls) == SelectSeq(Tail(calls), LAMBDA e : e.ev = "flow")

\* every pipe ever attached to the Copy is bound to a consumer
CopyAttachedBound(c) ==
  \A i \in 1..Len(copy_attached[c]) : destination[copy_attached[c][i]] # "none"

\* C16: on a receive, a Copy whose attached pipes are all bound forwards one
\* table with the content of the input on every attached pipe, in the order
\* the pipes were attached, and does not raise; with no pipe attached it
\* forwards nothing and does not raise.
C16_CopyForwardsToEveryOutput ==
  [][(last_call'.op = "flow" /\ destination[last_call'.pipe] = "copy1"
        /\ CopyAttachedBound("copy1")) =>
       LET df == last_call'.df[1]
           flows == FlowsBelow(trace')
       IN  /\ raised' = "none"
           /\ Len(flows) = Len(copy_attached["copy1"])
           /\ \A i \in 1..Len(flows) :
                /\ flows[i].pipe = copy_attached["copy1"][i]
                /\ flows[i].pkg.df.rows = df.rows
                /\ flows[i].pkg.df.cols = df.cols]_vars

\* C17: when the consumer of one branch changes the table it received, the
\* table received on every other branch and the table handed to the Copy
\* keep their content.
C17_CopyIndependence ==
  [][last_call'.op = "mutate" =>
       /\ \A n \in 1..Len(trace) :
            (trace[n].ev = "sink" /\ trace[n].pipe # last_call'.pipe) =>
              heap'[trace[n].pkg.df.buf] = heap[trace[n].pkg.df.buf]
       /\ heap'[last_call'.df[1].buf] = last_call'.df[1].rows
       /\ \E n \in 1..Len(trace) :
            /\ trace[n].ev = "sink"
            /\ trace[n].pipe = last_call'.pipe
            /\ heap'[trace[n].pkg.df.buf] # heap[trace[n].pkg.df.buf]]_vars

\* two Printers received a copy each, and the table of the first was changed
C17_Witness ==
  /\ last_call.op = "mutate"
  /\ last_call.pipe = "o1"
  /\ \E n, m \in 1..Len(trace) :
       /\ trace[n].ev = "sink" /\ trace[n].pipe = "o1"
       /\ trace[m].ev = "sink" /\ trace[m].pipe = "o2"
       /\ heap[trace[n].pkg.df.buf] = Append(last_call.df[1].rows, MutatedRow)
       /\ heap[trace[m].pkg.df.buf] = last_call.df[1].rows
       /\ Len(last_call.df[1].rows) > 0

\* ----------------------------------------------------- call chain properties
RECURSIVE Below(_)
\* the pipes reachable from pipe o, o included
Below(o) ==
  {o} \cup (IF destination[o] \in Copies
            THEN UNION {Below(copy_outputs[destination[o]][k]) :
                          k \in 1..Len(copy_outputs[destination[o]])}
            ELSE {})

\* the pipes of a dict of pipes
PipesOf(pipes) == {pipes[k] : k \in 1..Len(pipes)}

\* a and b are output pipes of one fan-out node
Siblings(a, b) ==
  \/ \E c \in Copies : {a, b} \subseteq PipesOf(copy_outputs[c])
  \/ {a, b} \subseteq PipesOf(switcher_outputs)

\* the position at which the flow at position i of the chain returns, 0 if
\* it does not
ReturnOf(calls, i) ==
  LET later == {r \in (i + 1)..Len(calls) :
                  calls[r].ev = "return" /\ calls[r].pipe = calls[i].pipe}
  IN  IF later = {} THEN 0 ELSE CHOOSE r \in later : \A q \in later : r <= q

C19_PipeBoundOnce ==
  [][\A p \in AllPipes :
       (last_call'.op = "bind" /\ last_call'.pipe = p /\ destination[p] # "none") =>
         /\ raised' # "none"
         /\ destination'[p] = destination[p]]_vars

\* the exceptions the code raises itself
ValueErrors ==
  {"ValueError: can only have 1 input", "ValueError: can only have 1 output",
   "ValueError: can only have 2 inputs", "ValueError: join_type not supported",
   "ValueError: mapping key must be string or integer",
   "ValueError: unexpected pipe", "ValueError: key field not found",
   "ValueError: left DataFrame not received",
   "ValueError: right DataFrame not received",
   "ValueError: field not found", "ValueError: non-string/non-integer values",
   "ValueError: target pipe not found in outputs",
   "ValueError: no mapping found for value", "ValueError: rows with NaN values"}

\* C20: a flow on a pipe that has no destination ends with an error the code
\* raises to report the configuration, and reaches no consumer.
C20_UnboundFlowReported ==
  [][(last_call'.op = "flow" /\ destination[last_call'.pipe] = "none") =>
       /\ raised' \in ValueErrors
       /\ \A n \in 1..Len(trace') : trace'[n].ev # "sink"]_vars

\* ---------------------------------------------------------- graph properties
\* the positions of the calls of a chain that are of kind ev
Positions(calls, ev) == {n \in 1..Len(calls) : calls[n].ev = ev}

\* C21: every flow on a bound pipe builds one envelope whose origin name is
\* the name of that pipe and calls the sink of the pipe's consumer with it,
\* as its next call and only once: a call chain holds as many sinks as flows
\* on bound pipes, each sink right after its flow and with the envelope of
\* that flow.
C21_FlowDeliversOnceTagged ==
  [][/\ \A n \in Positions(trace', "flow") :
          /\ trace'[n].pkg.pipe_name = PipeName(trace'[n].pipe)
          /\ trace'[n].node # "none" =>
               /\ n < Len(trace')
               /\ trace'[n + 1] = [trace'[n] EXCEPT !.ev = "sink"]
     /\ \A n \in Positions(trace', "sink") :
          /\ n > 1
          /\ trace'[n - 1] = [trace'[n] EXCEPT !.ev = "flow"]
          /\ trace'[n].node # "none"]_vars

\* one pump of the Generator went through the Copy and both branches into
\* the Funnel, which received the envelope of the second branch under the
\* name of that branch and forwarded to the Printer
C21_Witness ==
  /\ last_call = Call("pump", "gen1", <<>>)
  /\ raised = "none"
  /\ \E n \in Positions(trace, "sink") :
       /\ trace[n].pipe = "o2"
       /\ trace[n].node = "funnel"
       /\ trace[n].pkg.pipe_name = "out2"
       /\ trace[n].pkg.df.rows = GeneratorDf(GeneratorLength).rows
  /\ \E n \in Positions(trace, "sink") :
       trace[n].node = "printer1" /\ trace[n].pkg.pipe_name = "out4"

\* the error an attach beyond the bound ends with, the registries untouched
Refused(error) ==
  /\ raised' = error
  /\ UNCHANGED <<printer_inputs, switcher_inputs, copy_inputs, joiner_inputs,
                 origin_outputs, funnel_outputs, joiner_outputs>>

\* C22: the registries never hold more channels than the node type allows
\* (1 input for Printer, Switcher and Copy, 2 inputs for Joiner, 1 output for
\* Generator, Funnel and Joiner), and an attach to a registry that is full
\* raises a ValueError and leaves every registry as it was.
C22_CardinalityEnforced ==
  [][/\ \A pr \in Printers : Cardinality(printer_inputs'[pr]) <= 1
     /\ Cardinality(switcher_inputs') <= 1
     /\ \A c \in Copies : Cardinality(copy_inputs'[c]) <= 1
     /\ Cardinality(joiner_inputs') <= JoinerExpectedInputs
     /\ \A g \in Origins : Len(origin_outputs'[g]) <= 1
     /\ Len(funnel_outputs') <= 1
     /\ Len(joiner_outputs') <= 1
     /\ (PrinterSetDestination("p1", "printer1") /\ printer_inputs["printer1"] # {})
          => Refused("ValueError: can only have 1 input")
     /\ (SwitcherSetDestination("p1") /\ switcher_inputs # {})
          => Refused("ValueError: can only have 1 input")
     /\ (CopySetDestination("p1", "copy1") /\ copy_inputs["copy1"] # {})
          => Refused("ValueError: can only have 1 input")
     /\ \A p \in BuildInPipes :
          (JoinerSetDestination(p) /\ Cardinality(joiner_inputs) = JoinerExpectedInputs)
            => Refused("ValueError: can only have 2 inputs")
     /\ (OriginAddOutputPipe("gen1", "p1") /\ Len(origin_outputs["gen1"]) = 1)
          => Refused("ValueError: can only have 1 output")
     /\ (FunnelAddOutputPipe("o1") /\ Len(funnel_outputs) = 1)
          => Refused("ValueError: can only have 1 output")
     /\ (JoinerAddOutputPipe("o1") /\ Len(joiner_outputs) = 1)
          => Refused("ValueError: can only have 1 output")]_vars

\* every registry is full and the last attach, a third input of the Joiner,
\* was refused
C22_Witness ==
  /\ raised = "ValueError: can only have 2 inputs"
  /\ joiner_inputs = {LeftPipeName, RightPipeName}
  /\ printer_inputs["printer1"] # {}
  /\ switcher_inputs # {}
  /\ copy_inputs["copy1"] # {}
  /\ Len(origin_outputs["gen1"]) = 1
  /\ Len(funnel_outputs) = 1
  /\ Len(joiner_outputs) = 1

\* C23: a pump of a producer that has no output pipe attached does not
\* raise and forwards nothing (for the Switcher: in its lenient mode).
C23_PumpWithoutOutputIsNoOp ==
  [][/\ \A g \in Origins :
          (last_call'.op = "pump" /\ last_call'.pipe = g
             /\ Len(origin_outputs[g]) = 0) =>
            /\ raised' = "none"
            /\ emit' = <<>>
     /\ (last_call'.op = "pump" /\ last_call'.pipe = "none"
           /\ Len(switcher_outputs) = 0 /\ ~fail_on_unmatch) =>
          /\ raised' = "none"
          /\ emit' = <<>>]_vars

\* C24: when the sink of a consumer raises a validation error in the call
\* chain of a pump, no call follows that sink and the pump ends, for its
\* caller, with this error.
C24_ValidationErrorAborts ==
  [][\A n \in Positions(trace', "sink") :
       (last_call'.op = "pump" /\ trace'[n].node = "switcher"
          /\ SwitcherValidation(trace'[n].pkg.df) # "none") =>
         /\ n = Len(trace')
         /\ raised' = SwitcherValidation(trace'[n].pkg.df)]_vars

\* C26: when the join of a Joiner fails (the second DataFrame arrives, an
\* output is attached, and the two key columns differ in dtype), the Joiner
\* keeps both DataFrames and its count of two.
C26_FailedJoinKeepsState ==
  [][LET name == last_flow'.pipe_name
     IN  (/\ last_flow' # NoFlow
          /\ name \in Roles
          /\ last_flow'.keyed
          /\ joiner_received_inputs = 1
          /\ Len(joiner_outputs) > 0
          /\ OtherRole(name) \in DOMAIN received_dfs
          /\ received_dfs[OtherRole(name)].key_dtype # last_flow'.key_dtype) =>
           /\ joiner_received_inputs' = JoinerExpectedInputs
           /\ DOMAIN received_dfs' = Roles
           /\ received_dfs'[OtherRole(name)] = received_dfs[OtherRole(name)]]_vars

\* -------------------------------------------------- Switcher order properties
\* the position of the first row of df whose field is v
FirstAt(df, v) == CHOOSE i \in LabelsOf(df, v) : \A j \in LabelsOf(df, v) : i <= j

\* the value of the partition in the k-th envelope forwarded
ValueAt(sent, k) == sent[k].df.rows[1]

\* the partition of value v of df was forwarded and reached the sink of a
\* consumer
Delivered(df, v, sent, calls) ==
  \E k \in 1..Len(sent) :
    /\ sent[k].df.rows = FilteredDf(df, v).rows
    /\ sent[k].df.index = FilteredDf(df, v).index
    /\ \E n \in Positions(calls, "sink") : calls[n].pkg = sent[k]

\* C29: in a receive of a batch that passed the validation, the partitions
\* forwarded follow the order in which their values first occur in the
\* batch; and when the null rows are handled (raised on in strict mode,
\* logged as dropped in lenient mode), every distinct non-null value has been
\* processed: forwarded if it is routed, logged as unmatched if not.
C29_SwitcherFirstOccurrenceOrder ==
  [][(SwitcherReceived(last_call') /\ SwitcherValidation(last_call'.df[1]) = "none") =>
       LET df == last_call'.df[1]
       IN  /\ \A i, j \in 1..Len(emit') :
                i < j => FirstAt(df, ValueAt(emit', i)) < FirstAt(df, ValueAt(emit', j))
           /\ (raised' = "ValueError: rows with NaN values" \/ dropped_null' # {}) =>
                \A v \in Distinct(df) :
                  IF SwitcherRoutes(v)
                  THEN \E k \in 1..Len(emit') : ValueAt(emit', k) = v
                  ELSE LabelsOf(df, v) \subseteq dropped_unmatched']_vars

\* the batch [2, 1] was forwarded as the partition of 2, then the partition
\* of 1
C29_Witness ==
  /\ SwitcherReceived(last_call)
  /\ last_call.df[1].rows = <<"2", "1">>
  /\ raised = "none"
  /\ Len(emit) = 2
  /\ ValueAt(emit, 1) = "2"
  /\ ValueAt(emit, 2) = "1"

\* C30: when a strict Switcher raises on an unrouted value u, the partition
\* of every value that first occurs before u in the batch has been forwarded
\* and has reached its consumer, and no partition of u or of a value that
\* first occurs after u has been forwarded; when it raises on the null rows,
\* the partition of every distinct non-null value has been forwarded and has
\* reached its consumer.
C30_SwitcherStrictNotAtomic ==
  [][(SwitcherReceived(last_call') /\ SwitcherValidation(last_call'.df[1]) = "none") =>
       LET df == last_call'.df[1]
       IN  /\ raised' \in {"ValueError: target pipe not found in outputs",
                            "ValueError: no mapping found for value"} =>
                \E u \in Distinct(df) :
                  /\ ~SwitcherRoutes(u)
                  /\ \A v \in Distinct(df) :
                       IF FirstAt(df, v) < FirstAt(df, u)
                       THEN SwitcherRoutes(v) /\ Delivered(df, v, emit', trace')
                       ELSE \A k \in 1..Len(emit') : ValueAt(emit', k) # v
           /\ raised' = "ValueError: rows with NaN values" =>
                \A v \in Distinct(df) :
                  SwitcherRoutes(v) /\ Delivered(df, v, emit', trace')]_vars

\* a strict Switcher delivered the partition of 1 to its Printer and then
\* raised on the unmapped value 2
C30_Witness ==
  /\ SwitcherReceived(last_call)
  /\ last_call.df[1].rows = <<"1", "2">>
  /\ fail_on_unmatch
  /\ raised = "ValueError: no mapping found for value"
  /\ Len(emit) = 1
  /\ \E n \in Positions(trace, "sink") :
       trace[n].node = "printer1" /\ trace[n].pkg.df.rows = <<"1">>

\* ----------------------------------------------------------- the diamond
\* Generator -> p1 -> Copy, branches o1 then o2 attached in that order and
\* both bound to the Funnel, which expects two inputs, has received nothing
\* yet, and forwards on o4 to a Printer
Diamond ==
  /\ origin_outputs["gen1"] = <<"p1">>
  /\ destination["p1"] = "copy1"
  /\ copy_outputs["copy1"] = <<"o1", "o2">>
  /\ destination["o1"] = "funnel"
  /\ destination["o2"] = "funnel"
  /\ funnel_expected_inputs = 2
  /\ funnel_received_inputs = 0
  /\ dfs = <<>>
  /\ funnel_outputs = <<"o4">>
  /\ destination["o4"] = "printer1"

\* the calls of a chain as pairs of kind and pipe
Steps(calls) == [n \in 1..Len(calls) |-> <<calls[n].ev, calls[n].pipe>>]

\* C27: one pump of the root of the diamond delivers one table to the Printer,
\* the rows of branch o1 followed by the rows of branch o2; the Funnel only
\* buffers the copy of branch o1, whose flow returns, and the merge, the flow
\* to the Printer and the Printer's sink all happen inside the flow of branch
\* o2, before the flow into the Copy returns.
C27_DiamondOneDelivery ==
  [][(Diamond /\ last_call' = Call("pump", "gen1", <<>>) /\ dfs' # dfs) =>
       LET df == GeneratorDf(GeneratorLength)
           at_printer == {n \in Positions(trace', "sink") : trace'[n].node = "printer1"}
       IN  /\ raised' = "none"
           /\ Steps(trace') =
                <<<<"flow", "p1">>, <<"sink", "p1">>,
                  <<"flow", "o1">>, <<"sink", "o1">>, <<"return", "o1">>,
                  <<"flow", "o2">>, <<"sink", "o2">>,
                  <<"flow", "o4">>, <<"sink", "o4">>, <<"return", "o4">>,
                  <<"return", "o2">>, <<"return", "p1">>>>
           /\ dfs' = <<DfCopy(df, "copy1", 1), DfCopy(df, "copy1", 2)>>
           /\ Cardinality(at_printer) = 1
           /\ \A n \in at_printer :
                /\ trace'[n].pkg.df.rows = df.rows \o df.rows
                /\ trace'[n].pkg.df.cols = df.cols
           /\ copy_received_df'["copy1"] = <<>>]_vars

\* the Printer of the diamond received the ten rows 0..4, 0..4
C27_Witness ==
  /\ last_call = Call("pump", "gen1", <<>>)
  /\ Len(dfs) = 2
  /\ funnel_expected_inputs = 2
  /\ copy_outputs["copy1"] = <<"o1", "o2">>
  /\ destination["o1"] = "funnel"
  /\ destination["o2"] = "funnel"
  /\ \E n \in Positions(trace, "sink") :
       /\ trace[n].node = "printer1"
       /\ trace[n].pkg.df.rows =
            <<"0", "1", "2", "3", "4", "0", "1", "2", "3", "4">>

\* ------------------------------------------------------- graph traversal
\* the step is a pump of origin g (the binds of the Funnel leave last_call
\* as it was)
PumpStep(g) ==
  /\ last_call' = Call("pump", g, <<>>)
  /\ UNCHANGED <<funnel_expected_inputs, funnel_outputs>>
  /\ raised' # "ValueError: can only have 1 output"

\* the pipes a pump of origin g reaches before any Funnel: the output pipe
\* of g and the pipes below it through Copies
Direct(g) ==
  IF Len(origin_outputs[g]) = 0 THEN {} ELSE Below(origin_outputs[g][1])

\* the pipes below the Funnel
BelowFunnel ==
  IF Len(funnel_outputs) = 0 THEN {} ELSE Below(funnel_outputs[1])

\* the pipes among a set that are bound to the Funnel
IntoFunnel(pipes) == {o \in pipes : destination[o] = "funnel"}

\* the count of the Funnel reaches its expected inputs in a round that
\* brings it hits more tables
FunnelFires(hits) ==
  \E k \in 1..hits : funnel_received_inputs + k = funnel_expected_inputs

\* the pipes that carry a table in a pump of origin g
Carried(g) ==
  Direct(g) \cup (IF FunnelFires(Cardinality(IntoFunnel(Direct(g))))
                  THEN BelowFunnel ELSE {})

\* the nodes at the end of a set of pipes
NodesAt(pipes) == {destination[o] : o \in pipes}

\* how often the sink of a node is called in a call chain
Visits(calls, node) ==
  Cardinality({n \in Positions(calls, "sink") : calls[n].node = node})

\* the graph below origin g is built as the samples build theirs: every
\* pipe of it is bound, g is the only root, and the Funnel expects as many
\* inputs as pipes are bound to it and has received nothing yet
WellBuilt(g) ==
  /\ Len(origin_outputs[g]) = 1
  /\ \A o \in Direct(g) : destination[o] # "none"
  /\ IntoFunnel(Direct(g)) # {} =>
       /\ Len(funnel_outputs) = 1
       /\ \A o \in BelowFunnel : destination[o] # "none"
  /\ IntoFunnel(AllPipes) \subseteq Direct(g)
  /\ funnel_expected_inputs = Cardinality(IntoFunnel(AllPipes))
  /\ funnel_received_inputs = 0

SampleBuilt ==
  /\ \A a \in SampleAttaches :
       /\ origin_outputs[a[1]] = <<a[2]>>
       /\ destination[a[2]] = "funnel"
  /\ funnel_expected_inputs = SampleInputs
  /\ funnel_outputs = <<"o4">>
  /\ destination["o4"] = "switcher"
  /\ switcher_mapping = <<SampleMapping>>
  /\ ~fail_on_unmatch
  /\ \A b \in SamplePrinterBinds :
       /\ HasName(switcher_outputs, PipeName(b[1]))
       /\ destination[b[1]] = b[2]

\* the tables the sink of a node was called with in a call chain, in order
Received(calls, node) ==
  LET sinks == SelectSeq(calls, LAMBDA e : e.ev = "sink" /\ e.node = node)
  IN  [n \in 1..Len(sinks) |-> sinks[n].pkg.df]

\* the table a Printer of the sample gets: the rows of value v of three
\* Generator tables put one after another, with their labels
SampleRowsOf(v) ==
  FilteredDf(Indexed(GenCols, GeneratorDf(GeneratorLength).rows
                                \o GeneratorDf(GeneratorLength).rows
                                \o GeneratorDf(GeneratorLength).rows), v)

\* C28: in the built pipeline of sample_1 with a Funnel that has received
\* nothing yet, the first and the second pump of a Generator end without an
\* exception and call no sink but the Funnel's; the third pump makes the
\* Funnel flow one table of 15 rows to the Switcher, each Printer's sink is
\* called once, with the 3 rows of its value, and the 9 rows of the values
\* 0, 3 and 4 are dropped without an exception.
C28_SampleThirdPumpDelivers ==
  [][\A g \in Generators :
       (PumpStep(g) /\ SampleBuilt /\ Len(dfs) = funnel_received_inputs
          /\ funnel_received_inputs < SampleInputs) =>
         /\ raised' = "none"
         /\ funnel_received_inputs' = funnel_received_inputs + 1
         /\ IF funnel_received_inputs + 1 < SampleInputs
            THEN /\ \A n \in Positions(trace', "sink") : trace'[n].node = "funnel"
                 /\ Received(trace', "switcher") = <<>>
                 /\ \A b \in SamplePrinterBinds : Received(trace', b[2]) = <<>>
            ELSE /\ Len(Received(trace', "switcher")) = 1
                 /\ Len(Received(trace', "switcher")[1].rows)
                      = SampleInputs * GeneratorLength
                 /\ Received(trace', "switcher")[1].cols = GenCols
                 /\ Len(Received(trace', "printer1")) = 1
                 /\ Received(trace', "printer1")[1].rows = <<"1", "1", "1">>
                 /\ Received(trace', "printer1")[1].index = SampleRowsOf("1").index
                 /\ Len(Received(trace', "printer2")) = 1
                 /\ Received(trace', "printer2")[1].rows = <<"2", "2", "2">>
                 /\ Received(trace', "printer2")[1].index = SampleRowsOf("2").index
                 /\ dropped_unmatched' = Labels(SampleRowsOf("0"))
                                           \cup Labels(SampleRowsOf("3"))
                                           \cup Labels(SampleRowsOf("4"))
                 /\ Cardinality(dropped_unmatched') = 9
                 /\ dropped_null' = {}]_vars

\* the third pump of the built sample has run: the Funnel holds three
\* tables and each Printer was called once with three rows
C28_Witness ==
  /\ SampleBuilt
  /\ last_call = Call("pump", "gen3", <<>>)
  /\ Len(dfs) = 3
  /\ funnel_received_inputs = 3
  /\ Len(Received(trace, "printer1")) = 1
  /\ Len(Received(trace, "printer1")[1].rows) = 3
  /\ Len(Received(trace, "printer2")) = 1
  /\ Cardinality(dropped_unmatched) = 9
  /\ raised = "none"

\* ------------------------------------------------------- node counters
\* C31: in every receive of a Funnel that runs merge_and_pump, the buffer
\* holds at least one table and combined_df becomes their concatenation:
\* the 'no DataFrames to merge' branch is not taken.
C31_FunnelMergeNeverEmpty ==
  [][(dfs' # dfs /\ FunnelReady(funnel_received_inputs', funnel_expected_inputs'))
       => /\ Len(dfs') >= 1
          /\ combined_df' = <<PdConcat(dfs')>>]_vars

\* a receive has run merge_and_pump on a buffer of two tables
C31_Witness ==
  /\ Len(dfs) = 2
  /\ FunnelReady(funnel_received_inputs, funnel_expected_inputs)
  /\ combined_df = <<PdConcat(dfs)>>

\* C32: the Funnel's buffer holds as many tables as received_inputs counts,
\* and received_inputs is never above expected_inputs.
C32_FunnelCountWithinExpected ==
  /\ Len(dfs) = funnel_received_inputs
  /\ funnel_received_inputs <= funnel_expected_inputs

\* C33: when every bind to the Funnel was of a different pipe,
\* expected_inputs is the number of entries of the Funnel's inputs dict.
C33_FunnelExpectedIsRegistrySize ==
  Cardinality({p \in FunnelPipes : destination[p] = "funnel"}) = funnel_expected_inputs
    => funnel_expected_inputs = Cardinality(funnel_inputs)

\* C34: the Joiner's received_inputs is the number of roles that hold a
\* table, and is at most 2.
C34_JoinerCountIsPopulatedRoles ==
  /\ joiner_received_inputs = Cardinality(DOMAIN received_dfs)
  /\ joiner_received_inputs <= JoinerExpectedInputs

\* ------------------------------------------------------- refused binds
\* C35: every sink call of a Printer or a Copy is made with an envelope of
\* a pipe whose name is in the inputs dict of that node (a pipe whose bind
\* the node refused does not deliver to it).
C35_ReceivesOnlyFromRegistered ==
  \A n \in Positions(trace, "sink") :
    /\ trace[n].node \in Printers
         => trace[n].pkg.pipe_name \in printer_inputs[trace[n].node]
    /\ trace[n].node \in Copies
         => trace[n].pkg.pipe_name \in copy_inputs[trace[n].node]

\* ------------------------------------------------------- Switcher fan-in
\* C36: in one receive the Switcher flows at most once on each of its
\* output pipes, whatever its mapping.
C36_SwitcherOncePerChannel ==
  [][last_call'.op = "flow" =>
       \A o \in SwitcherOutPipes :
         Cardinality({n \in Positions(trace', "flow") : trace'[n].pipe = o}) <= 1]_vars

====
